---- MODULE Spec2Model ----
(***************************************************************************)
(* Model of the source-to-settle synthetic data generator                  *)
(* (src/data/generate/generate_all_data.py).  The script is one linear     *)
(* run: vendors -> purchase orders and goods receipts -> invoices ->       *)
(* supplier history -> events -> manifest.  Every call into the random     *)
(* generators (random.*, Faker) is a nondeterministic draw from a small    *)
(* set; an uncaught Python exception ends the run in pc = "aborted" with   *)
(* the exception's name in error.                                          *)
(*                                                                         *)
(* Strings built with f-strings are tuples of their parts: "VENDOR-0007"   *)
(* is <<"VENDOR", <<0,0,0,7>>>>, the empty string is <<>>.  Two-decimal   *)
(* amounts are integers in paise; a random.uniform factor is an integer in *)
(* thousandths; products are computed in parts to stay within 32 bits.     *)
(***************************************************************************)
EXTENDS Integers, Sequences, FiniteSets, TLC

VARIABLES
    pc,               \* position of the run in the script
    error,            \* name of the uncaught exception, "" while running
    cfg,              \* the run's configuration (Config): counts, status pool, clock reading
    csv,              \* files written so far: file name -> rows
    statuses,         \* the vendor status pool, shuffled in place
    risk_bands,       \* the vendor risk band pool, shuffled in place
    vendors_data,     \* vendors generated so far
    vendors_df,       \* the vendor table, pd.DataFrame(vendors_data)
    approved_vendors, \* vendor ids with status APPROVED, in table order
    po_data,          \* purchase orders generated so far
    gr_data,          \* goods receipts generated so far
    pos_with_gr,      \* the CLOSED purchase orders (line 220)
    invoice_statuses, \* the shuffled invoice status pool
    invoices_data,    \* invoices generated so far
    history_pos,      \* approved vendors the supplier history loop has visited
    supplier_history, \* supplier history rows generated so far
    event_start,      \* the clock reading of line 386 less 60 days, Unset before
    events_data,      \* events generated so far
    events_df,        \* the event table, sorted by timestamp
    manifest,         \* the manifest dict, Unset before it is built
    pdf_idx,          \* invoice rows the PDF loop of generate_pdfs.py has visited
    pdf_files,        \* invoice PDF files written so far
    digital_count,    \* generate_pdfs.py: digital_count
    scanned_count,    \* generate_pdfs.py: scanned_count
    reruns            \* run -> its clock reading and the vendor dates it has emitted

phase1Vars == <<statuses, risk_bands, vendors_data, vendors_df>>
phase2Vars == <<approved_vendors, po_data, gr_data>>
phase3Vars == <<pos_with_gr, invoice_statuses, invoices_data>>
phase4Vars == <<history_pos, supplier_history>>
phase5Vars == <<event_start, events_data, events_df>>
phase6Vars == <<manifest>>
phase7Vars == <<pdf_idx, pdf_files, digital_count, scanned_count>>
afterPhase4 == <<phase5Vars, phase6Vars, phase7Vars, reruns>>
afterPhase3 == <<phase4Vars, afterPhase4>>

vars == <<pc, error, cfg, csv, phase1Vars, phase2Vars, phase3Vars, phase4Vars, phase5Vars,
         phase6Vars, phase7Vars, reruns>>

----------------------------------------------------------------------------
(* Bounds of the exploration *)

PoolApproved == 1     \* APPROVED entries of the vendor status pool
PoolPending == 1      \* PENDING entries
PoolRejected == 1     \* REJECTED entries
PoolLow == 1          \* LOW entries of the risk band pool
PoolMedium == 1       \* MEDIUM entries
PoolHigh == 1         \* HIGH entries
NumVendors == 2       \* vendors in the table the procurement phase starts from
MaxPOs == 2           \* NUM_POS ranges over 0..MaxPOs
NumInvoices == 2      \* NUM_INVOICES of the short runs

----------------------------------------------------------------------------
(* Python helpers *)

Max(a, b) == IF a >= b THEN a ELSE b
Min(a, b) == IF a <= b THEN a ELSE b

Range(s) == {s[k] : k \in DOMAIN s}

\* The decimal digits of n >= 0, most significant first.
RECURSIVE Digits(_)
Digits(n) == IF n < 10 THEN <<n>> ELSE Append(Digits(n \div 10), n % 10)

\* f"{n:04d}": zero-padded to four digits, longer numbers kept whole.
RECURSIVE ZeroPad(_, _)
ZeroPad(d, width) == IF Len(d) >= width THEN d ELSE ZeroPad(<<0>> \o d, width)

Fmt04d(n) == ZeroPad(Digits(n), 4)

\* The empty string "".
EmptyStr == <<>>

VendorId(i) == <<"VENDOR", Fmt04d(i)>>
PoId(i) == <<"PO", Fmt04d(i)>>
GrId(i) == <<"GR", Fmt04d(i)>>
InvoiceId(i) == <<"INV", Fmt04d(i)>>

\* s.split('-')[1] of an id built as above.
SplitDash1(id) == id[2]

\* df[df[col] == v] as a sequence of rows, in order.
RECURSIVE Filter(_, _, _)
Filter(rows, col, v) ==
    IF rows = <<>> THEN <<>>
    ELSE LET rest == Filter(Tail(rows), col, v)
         IN  IF Head(rows)[col] = v THEN <<Head(rows)>> \o rest ELSE rest

\* df[col].tolist()
Column(rows, col) == [k \in DOMAIN rows |-> rows[k][col]]

\* round(n/d) for n >= 0, d > 0: nearest integer, an exact tie to the even one.
RoundDiv(n, d) ==
    LET q == n \div d
        r == n % d
    IN  IF 2 * r < d THEN q
        ELSE IF 2 * r > d THEN q + 1
        ELSE IF q % 2 = 0 THEN q ELSE q + 1

\* The number a string of decimal digits denotes.
RECURSIVE FromDigits(_)
FromDigits(d) ==
    IF d = <<>> THEN 0 ELSE 10 * FromDigits(SubSeq(d, 1, Len(d) - 1)) + d[Len(d)]

\* The least number of a set of draws.
Lowest(draws) == CHOOSE x \in draws : \A y \in draws : x <= y

\* datetime.now() (lines 95, 149, 217), as days since 1970-01-01: 2026-11-03, 2026-11-04
\* and 2028-08-27.
ClockDraws == {20760, 20761, 21423}

\* The calendar date of a day number: [year, month, day] in the Gregorian calendar.
CivilFromDays(days) ==
    LET z == days + 719468
        era == z \div 146097
        doe == z % 146097
        yoe == (doe - doe \div 1460 + doe \div 36524 - doe \div 146096) \div 365
        doy == doe - (365 * yoe + yoe \div 4 - yoe \div 100)
        mp == (5 * doy + 2) \div 153
        m == IF mp < 10 THEN mp + 3 ELSE mp - 9
    IN  [year  |-> yoe + era * 400 + (IF m <= 2 THEN 1 ELSE 0),
         month |-> m,
         day   |-> doy - (153 * mp + 2) \div 5 + 1]

\* dt.strftime('%Y-%m-%d')
Strftime(days) ==
    LET c == CivilFromDays(days)
    IN  <<Fmt04d(c.year), ZeroPad(Digits(c.month), 2), ZeroPad(Digits(c.day), 2)>>

\* Two '%Y-%m-%d' strings compared as Python compares str: digit by digit, which for
\* zero-padded fields of equal width is the order of year, month and day.
DateLess(a, b) ==
    LET ka == <<FromDigits(a[1]), FromDigits(a[2]), FromDigits(a[3])>>
        kb == <<FromDigits(b[1]), FromDigits(b[2]), FromDigits(b[3])>>
    IN  \/ ka[1] < kb[1]
        \/ ka[1] = kb[1] /\ ka[2] < kb[2]
        \/ ka[1] = kb[1] /\ ka[2] = kb[2] /\ ka[3] < kb[3]

\* The draws an iteration explores for a date offset: both ends of the range in the
\* runs that vary the dates (cfg.all_dates), the low end in the others.
DateDraws(draws) == IF cfg.all_dates THEN draws ELSE {Lowest(draws)}

\* The configuration of a run: the NUM_* counts, the invoice status pool, the clock
\* reading of the run and whether the exploration varies the date draws.
Config(num_vendors, num_pos, num_invoices, num_events, pool, all_dates, now) ==
    [NUM_VENDORS |-> num_vendors, NUM_POS |-> num_pos, NUM_INVOICES |-> num_invoices,
     NUM_EVENTS |-> num_events, pool |-> pool, all_dates |-> all_dates, now |-> now]

\* An amount that need not be a whole number of paise: paise + milli/1000.
Paise(p) == [paise |-> p, milli |-> 0]

\* p * f / 1000 for a whole amount p in paise and a factor f in thousandths, exact.
Scale(p, f) ==
    LET rest == (p % 1000) * f
    IN  [paise |-> (p \div 1000) * f + rest \div 1000, milli |-> rest % 1000]

\* round(x, 2) of an amount x = paise + milli/1000, in paise.
Round2(x) == x.paise + RoundDiv(x.milli, 1000)

----------------------------------------------------------------------------
(* Phase 1: vendors *)

VendorStatuses == {"APPROVED", "PENDING", "REJECTED"}
RiskBands == {"LOW", "MEDIUM", "HIGH"}
ForeignCountries == {"USA", "UK", "Singapore", "UAE", "Germany"}

\* Mutant: the SWIFT code given to every vendor.
Vendor_SwiftAlways(i, status, risk, is_indian, foreign) ==
    [vendor_id  |-> VendorId(i),
     country    |-> IF is_indian THEN "India" ELSE foreign,
     state      |-> IF is_indian THEN <<"state">> ELSE EmptyStr,
     status     |-> status,
     risk_band  |-> risk,
     pan        |-> IF is_indian THEN <<"pan">> ELSE EmptyStr,
     gst        |-> IF is_indian THEN <<"gst">> ELSE EmptyStr,
     tax_id     |-> IF is_indian THEN EmptyStr ELSE <<"ean13">>,
     ifsc_code  |-> IF is_indian THEN <<"ifsc">> ELSE EmptyStr,
     swift_code |-> <<"swift">>]

\* The vendor dict of one loop iteration; the Faker strings are opaque tokens.
Vendor(i, status, risk, is_indian, foreign) ==
    [vendor_id  |-> VendorId(i),
     country    |-> IF is_indian THEN "India" ELSE foreign,
     state      |-> IF is_indian THEN <<"state">> ELSE EmptyStr,
     status     |-> status,
     risk_band  |-> risk,
     pan        |-> IF is_indian THEN <<"pan">> ELSE EmptyStr,
     gst        |-> IF is_indian THEN <<"gst">> ELSE EmptyStr,
     tax_id     |-> IF is_indian THEN EmptyStr ELSE <<"ean13">>,
     ifsc_code  |-> IF is_indian THEN <<"ifsc">> ELSE EmptyStr,
     swift_code |-> IF ~is_indian THEN <<"swift">> ELSE EmptyStr]

\* ['X'] * n
RECURSIVE Repeat(_, _)
Repeat(x, n) == IF n = 0 THEN <<>> ELSE <<x>> \o Repeat(x, n - 1)

\* How often each entry occurs in a list.
Count(seq) == [x \in Range(seq) |-> Cardinality({k \in DOMAIN seq : seq[k] = x})]

\* Every order of a pool given as entry -> count.
RECURSIVE Arrangements(_)
Arrangements(pool) ==
    LET left == {s \in DOMAIN pool : pool[s] > 0}
    IN  IF left = {} THEN {<<>>}
        ELSE UNION {{<<s>> \o t : t \in Arrangements([pool EXCEPT ![s] = @ - 1])} : s \in left}

\* What random.shuffle(x) can leave in x: any order of its entries.
Shuffles(seq) == Arrangements(Count(seq))

\* A name the script has not assigned yet.
Unset == <<>>

\* A single run: nothing is compared against a second one.
NoReruns == <<>>

Abort(exc) ==
    /\ pc' = "aborted"
    /\ error' = exc

\* statuses = ['APPROVED'] * 15 + ['PENDING'] * 3 + ['REJECTED'] * 2, scaled to the bounds
StatusPool ==
    Repeat("APPROVED", PoolApproved) \o Repeat("PENDING", PoolPending)
        \o Repeat("REJECTED", PoolRejected)

\* risk_bands = ['LOW'] * 12 + ['MEDIUM'] * 6 + ['HIGH'] * 2, scaled to the bounds
RiskPool ==
    Repeat("LOW", PoolLow) \o Repeat("MEDIUM", PoolMedium) \o Repeat("HIGH", PoolHigh)

\* random.shuffle(statuses); random.shuffle(risk_bands)
ShufflePools ==
    /\ pc = "vendors"
    /\ statuses' \in Shuffles(statuses)
    /\ risk_bands' \in Shuffles(risk_bands)
    /\ pc' = "vendor_loop"
    /\ UNCHANGED <<error, cfg, csv, vendors_data, vendors_df, phase2Vars, phase3Vars, afterPhase3>>

\* Mutant: every vendor given the pool's first entry.
PoolEntry_First(pool, i) == pool[1]

\* statuses[i-1] of the loop body: the pool entry at the vendor's position.
PoolEntry(pool, i) == pool[i]

\* One iteration of the vendor loop.
GenerateVendor ==
    /\ pc = "vendor_loop"
    /\ Len(vendors_data) < cfg.NUM_VENDORS
    /\ LET i == Len(vendors_data) + 1
       IN  IF i > Len(statuses) \/ i > Len(risk_bands)
           THEN \* statuses[i-1] past the end of the pool raises IndexError
                /\ Abort("IndexError")
                /\ UNCHANGED vendors_data
           ELSE \E is_indian \in BOOLEAN, foreign \in ForeignCountries :
                   /\ vendors_data' = Append(vendors_data,
                          Vendor(i, PoolEntry(statuses, i), PoolEntry(risk_bands, i),
                                 is_indian, foreign))
                   /\ UNCHANGED <<pc, error>>
    /\ UNCHANGED <<cfg, csv, statuses, risk_bands, vendors_df, phase2Vars, phase3Vars, afterPhase3>>

\* vendors_df = pd.DataFrame(vendors_data); vendors_df.to_csv(...), then the summary prints.
ExportVendors ==
    /\ pc = "vendor_loop"
    /\ Len(vendors_data) = cfg.NUM_VENDORS
    /\ vendors_df' = vendors_data
    /\ csv' = csv @@ ("vendors.csv" :> vendors_data)
    /\ IF vendors_data = <<>>
       THEN \* pd.DataFrame([]) has no 'status' column: vendors_df['status'] raises KeyError
            Abort("KeyError")
       ELSE /\ pc' = "procurement"
            /\ UNCHANGED error
    /\ UNCHANGED <<cfg, statuses, risk_bands, vendors_data, phase2Vars, phase3Vars, afterPhase3>>

\* The state the script starts from, with the pools as built at lines 88-89.
InitVendors ==
    /\ pc = "vendors"
    /\ error = ""
    /\ cfg = Config(Len(StatusPool), 0, 0, 0, [s \in {} |-> 0], FALSE, Lowest(ClockDraws))
    /\ csv = <<>>
    /\ statuses = StatusPool
    /\ risk_bands = RiskPool
    /\ vendors_data = <<>>
    /\ vendors_df = <<>>
    /\ approved_vendors = <<>>
    /\ po_data = <<>>
    /\ gr_data = <<>>
    /\ pos_with_gr = <<>>
    /\ invoice_statuses = <<>>
    /\ invoices_data = <<>>
    /\ history_pos = 0
    /\ reruns = NoReruns
    /\ event_start = Unset
    /\ events_data = <<>>
    /\ events_df = <<>>
    /\ manifest = Unset
    /\ pdf_idx = 0
    /\ pdf_files = {}
    /\ digital_count = 0
    /\ scanned_count = 0
    /\ supplier_history = <<>>

NextVendors ==
    \/ ShufflePools
    \/ GenerateVendor
    \/ ExportVendors

SpecVendors == InitVendors /\ [][NextVendors]_vars

----------------------------------------------------------------------------
(* Phase 2: purchase orders and goods receipts *)

\* round(random.uniform(50000, 5000000), 2), in paise.
PoAmountDraws == {5000191, 123456789}

\* random.uniform(0.95, 1.0), in thousandths.
GrFractionDraws == {950, 999}

\* random.randint(0, 90) of line 154 and random.randint(10, 40) of line 175.
PoDateDraws == {0, 90}
GrDelayDraws == {10, 40}

\* Mutant: the status filter dropped.
ApprovedVendorIds_AllVendors(vendors) == Column(vendors, "vendor_id")

\* approved_vendors = vendors_df[vendors_df['status'] == 'APPROVED']['vendor_id'].tolist()
ApprovedVendorIds(vendors) == Column(Filter(vendors, "status", "APPROVED"), "vendor_id")

FilterApproved ==
    /\ pc = "procurement"
    /\ approved_vendors' = ApprovedVendorIds(vendors_df)
    /\ pc' = "po_loop"
    /\ UNCHANGED <<error, cfg, csv, po_data, gr_data, phase1Vars, phase3Vars, afterPhase3>>

\* Mutant: every purchase order closed, with or without a goods receipt.
PoStatus_AlwaysClosed(has_gr) == "CLOSED"

\* 'status': 'CLOSED' if has_gr else 'OPEN'
PoStatus(has_gr) == IF has_gr THEN "CLOSED" ELSE "OPEN"

\* if has_gr: ... gr_data.append(gr)
AppendGr(grs, has_gr, gr) == IF has_gr THEN Append(grs, gr) ELSE grs

\* Mutant: the fraction of the amount cut to whole paise instead of rounded.
GrAmount_Floor(po_amount, exact, fraction) ==
    IF exact THEN po_amount ELSE Scale(po_amount, fraction).paise

\* gr_amount = po_amount if random.random() < 0.8 else round(po_amount * uniform, 2)
GrAmount(po_amount, exact, fraction) ==
    IF exact THEN po_amount ELSE Round2(Scale(po_amount, fraction))

\* po_date = po_start_date + timedelta(days=...), po_start_date = now - 120 days,
\* as a day number.
PoDate(now, po_date_draw) == (now - 120) + po_date_draw

\* Mutant: the goods receipt dated on the day of the purchase order.
GrDate_SameDay(po_date, gr_delay_draw) == po_date

\* gr_date = po_date + timedelta(days=random.randint(10, 40))
GrDate(po_date, gr_delay_draw) == po_date + gr_delay_draw

\* The po dict (lines 160-171).
PurchaseOrder(i, vendor_id, po_date, po_amount, has_gr) ==
    [po_id     |-> PoId(i),
     vendor_id |-> vendor_id,
     po_date   |-> Strftime(po_date),
     po_amount |-> po_amount,
     status    |-> PoStatus(has_gr)]

\* The gr dict (lines 179-189).
GoodsReceipt(n, i, vendor_id, gr_date, gr_amount) ==
    [gr_id     |-> GrId(n),
     po_id     |-> PoId(i),
     vendor_id |-> vendor_id,
     gr_date   |-> Strftime(gr_date),
     gr_amount |-> gr_amount]

\* One iteration of the PO loop.
GeneratePO ==
    /\ pc = "po_loop"
    /\ Len(po_data) < cfg.NUM_POS
    /\ LET i == Len(po_data) + 1
       IN  IF approved_vendors = <<>>
           THEN \* random.choice([]) raises IndexError
                /\ Abort("IndexError")
                /\ UNCHANGED <<po_data, gr_data>>
           ELSE \E vendor_id \in Range(approved_vendors), po_amount \in PoAmountDraws,
                   has_gr \in BOOLEAN, exact \in BOOLEAN, fraction \in GrFractionDraws,
                   po_date_draw \in DateDraws(PoDateDraws),
                   gr_delay_draw \in DateDraws(GrDelayDraws) :
                   LET po_date == PoDate(cfg.now, po_date_draw)
                       po == PurchaseOrder(i, vendor_id, po_date, po_amount, has_gr)
                       gr == GoodsReceipt(Len(gr_data) + 1, i, vendor_id,
                                          GrDate(po_date, gr_delay_draw),
                                          GrAmount(po_amount, exact, fraction))
                   IN  /\ po_data' = Append(po_data, po)
                       /\ gr_data' = AppendGr(gr_data, has_gr, gr)
                       /\ UNCHANGED <<pc, error>>
    /\ UNCHANGED <<cfg, csv, approved_vendors, phase1Vars, phase3Vars, afterPhase3>>

\* po_df.to_csv(DATA_DIR / "po_gr.csv"), then the summary prints.
ExportProcurement ==
    /\ pc = "po_loop"
    /\ Len(po_data) = cfg.NUM_POS
    /\ csv' = csv @@ ("po_gr.csv" :> po_data)
    /\ IF po_data = <<>>
       THEN \* pd.DataFrame([]) has no 'status' column: po_df['status'] raises KeyError
            Abort("KeyError")
       ELSE /\ pc' = "invoices"
            /\ UNCHANGED error
    /\ UNCHANGED <<cfg, phase1Vars, phase2Vars, phase3Vars, afterPhase3>>

----------------------------------------------------------------------------
(* Phase 3: invoices *)

InvoiceStatuses == {"MATCHED", "DUPLICATE", "EXCEPTION", "PENDING"}
ExceptionTypes == {"amount_mismatch", "missing_po", "date_issue"}

\* round(random.uniform(10000, 1000000), 2), in paise.
FreeAmountDraws == {1000000}

\* random.uniform(0.8, 1.3), in thousandths.
MismatchFactorDraws == {800, 1300}

\* fake.bothify(text='####')
SuffixDraws == {<<4, 0, 4, 2>>}

\* Mutant: the CLOSED filter dropped.
ClosedPOs_AllPOs(pos) == pos

\* pos_with_gr = po_df[po_df['status'] == 'CLOSED'].to_dict('records')
ClosedPOs(pos) == Filter(pos, "status", "CLOSED")

\* random.shuffle(invoice_statuses), then pos_with_gr.
ShuffleInvoiceStatuses ==
    /\ pc = "invoices"
    /\ invoice_statuses' \in Arrangements(cfg.pool)
    /\ pos_with_gr' = ClosedPOs(po_data)
    /\ pc' = "invoice_loop"
    /\ UNCHANGED <<error, cfg, csv, invoices_data, phase1Vars, phase2Vars, afterPhase3>>

\* Mutant: a purchase order taken whatever the status.
TakesPO_AnyStatus(status, closed) == closed # <<>>

\* status in ['MATCHED', 'PAID'] and pos_with_gr
TakesPO(status, closed) == status \in {"MATCHED", "PAID"} /\ closed # <<>>

\* gr_df[gr_df['po_id'] == po_reference]
GrMatches(grs, po_reference) == Filter(grs, "po_id", po_reference)

\* Mutant: the goods receipt never resolved.
GrReference_Empty(matches) == EmptyStr

\* gr = matches.iloc[0] if len(matches) > 0 else None; gr['gr_id'] if gr is not None else ""
GrReference(matches) == IF Len(matches) > 0 THEN matches[1].gr_id ELSE EmptyStr

\* The vendor, references and amount an iteration starts from (lines 227-240):
\* the set of outcomes over the draws.
Selections(status, closed, grs, approved) ==
    IF TakesPO(status, closed)
    THEN {[vendor_id    |-> po.vendor_id,
           po_reference |-> po.po_id,
           gr_reference |-> GrReference(GrMatches(grs, po.po_id)),
           amount       |-> Paise(po.po_amount)] : po \in Range(closed)}
    ELSE {[vendor_id    |-> v,
           po_reference |-> EmptyStr,
           gr_reference |-> EmptyStr,
           amount       |-> Paise(a)] : v \in Range(approved), a \in FreeAmountDraws}

\* if status == 'EXCEPTION': the branch on exception_type (lines 245-252).
InjectException(sel, status, exception_type, factor) ==
    IF status # "EXCEPTION" THEN sel
    ELSE IF exception_type = "amount_mismatch" /\ sel.po_reference # EmptyStr
         THEN [sel EXCEPT !.amount = Scale(@.paise, factor)]
    ELSE IF exception_type = "missing_po"
         THEN [sel EXCEPT !.po_reference = EmptyStr, !.gr_reference = EmptyStr]
    ELSE sel

\* The anomaly branches an iteration executed.
Anomalies(sel, status, exception_type) ==
    IF status # "EXCEPTION" THEN {}
    ELSE IF exception_type = "amount_mismatch" /\ sel.po_reference # EmptyStr
         THEN {"amount_mismatch"}
    ELSE IF exception_type = "missing_po" THEN {"missing_po"}
    ELSE {}

\* The literals of lines 255 and 256.
DupAfter == 10
DupWindow == 20

\* Mutant: duplicates copied from the second invoice on.
Duplicates_AfterFirst(status, i) == status = "DUPLICATE" /\ i > 1

\* status == 'DUPLICATE' and i > 10
Duplicates(status, i) == status = "DUPLICATE" /\ i > DupAfter

\* Mutant: the window one invoice longer.
DupLo_OneMore(i) == Max(0, i - DupWindow - 1)

\* random.randint(max(0, i-20), i-2): the bounds, both included
DupLo(i) == Max(0, i - DupWindow)

\* Mutant: the upper bound one past the last invoice appended.
DupHi_Current(i) == i - 1

DupHi(i) == i - 2

\* Mutant: the invoice number copied without the vendor.
DuplicateVendor_Own(duplicate_invoice, sel) == sel.vendor_id

\* vendor_id = duplicate_invoice['vendor_id'] (line 258)
DuplicateVendor(duplicate_invoice, sel) == duplicate_invoice.vendor_id

\* Python's seq[k] for a list: TRUE when k is in range (negative k counts from the end).
InRange(seq, k) == -Len(seq) <= k /\ k < Len(seq)
ListGet(seq, k) == IF k >= 0 THEN seq[k + 1] ELSE seq[Len(seq) + k + 1]

\* f"INV-{vendor_id.split('-')[1]}-{fake.bothify(text='####')}"
FreshInvoiceNumber(vendor_id, suffix) == <<"INV", SplitDash1(vendor_id), suffix>>

\* random.randint(0, 80) of line 242.
InvoiceDateDraws == {0, 80}

\* invoice_date = invoice_start_date + timedelta(days=...), invoice_start_date =
\* now - 90 days, as a day number.
InvoiceDate(now, invoice_date_draw) == (now - 90) + invoice_date_draw

\* round(whole + num/den) for num >= 0, den > 0: the nearest integer.  The value is
\* computed in binary floating point, so where it is an exact tie either neighbour
\* can come out.
Roundings(whole, num, den) ==
    LET q == whole + num \div den
        r == num % den
    IN  IF 2 * r < den THEN {q}
        ELSE IF 2 * r > den THEN {q + 1}
        ELSE {q, q + 1}

\* Mutant: total_amount taken from the invoice amount instead of the rounded sum.
TaxOutcomes_TotalFromAmount(amount) ==
    LET base_rest == (1000 * (amount.paise % 59) + amount.milli) * 50
        tax_rest == (1000 * (amount.paise % 118) + amount.milli) * 9
    IN  {[base_amount |-> b, cgst |-> c, sgst |-> c, igst |-> 0, total_amount |-> t] :
            b \in Roundings(50 * (amount.paise \div 59), base_rest, 59000),
            c \in Roundings(9 * (amount.paise \div 118), tax_rest, 118000),
            t \in Roundings(amount.paise, amount.milli, 1000)}

\* Mutant: cgst and sgst charged on the invoice amount instead of the base amount.
TaxOutcomes_TaxOnAmount(amount) ==
    LET base_rest == (1000 * (amount.paise % 59) + amount.milli) * 50
        tax_rest == (1000 * (amount.paise % 100) + amount.milli) * 9
    IN  UNION {{[base_amount |-> b, cgst |-> c, sgst |-> c, igst |-> 0, total_amount |-> t] :
                   b \in Roundings(50 * (amount.paise \div 59), base_rest, 59000),
                   t \in Roundings(50 * (amount.paise \div 59) + c + c, base_rest, 59000)} :
               c \in Roundings(9 * (amount.paise \div 100), tax_rest, 100000)}

\* The tax calculation (lines 263-266) and the fields emitted from it (lines 274-278),
\* in paise: base_amount = amount / 1.18 is amount * 50 / 59, base_amount * 0.09 is
\* amount * 9 / 118; the quotients are split so that no product leaves 32 bits.  The
\* set holds the outcomes of the roundings.
TaxOutcomes(amount) ==
    LET base_rest == (1000 * (amount.paise % 59) + amount.milli) * 50
        tax_rest == (1000 * (amount.paise % 118) + amount.milli) * 9
    IN  UNION {{[base_amount |-> b, cgst |-> c, sgst |-> c, igst |-> 0, total_amount |-> t] :
                   b \in Roundings(50 * (amount.paise \div 59), base_rest, 59000),
                   t \in Roundings(50 * (amount.paise \div 59) + c + c, base_rest, 59000)} :
               c \in Roundings(9 * (amount.paise \div 118), tax_rest, 118000)}

\* The invoice dict (lines 268-288), with the draws of the iteration kept beside the
\* columns: exception_type, anomalies and dup_index (-1 when nothing was copied).
Invoice(i, status, sel, vendor_id, invoice_number, invoice_date, tax, exception_type, anomalies, dup_index) ==
    [invoice_id     |-> InvoiceId(i),
     vendor_id      |-> vendor_id,
     invoice_number |-> invoice_number,
     invoice_date   |-> Strftime(invoice_date),
     base_amount    |-> tax.base_amount,
     cgst           |-> tax.cgst,
     sgst           |-> tax.sgst,
     igst           |-> tax.igst,
     total_amount   |-> tax.total_amount,
     status         |-> status,
     po_reference   |-> sel.po_reference,
     gr_reference   |-> sel.gr_reference,
     amount         |-> sel.amount,
     exception_type |-> exception_type,
     anomalies      |-> anomalies,
     dup_index      |-> dup_index]

\* One iteration of the invoice loop.
GenerateInvoice ==
    /\ pc = "invoice_loop"
    /\ Len(invoices_data) < cfg.NUM_INVOICES
    /\ LET i == Len(invoices_data) + 1
           status == invoice_statuses[i]
       IN  IF ~TakesPO(status, pos_with_gr) /\ approved_vendors = <<>>
           THEN \* random.choice([]) raises IndexError
                /\ Abort("IndexError")
                /\ UNCHANGED invoices_data
           ELSE IF Duplicates(status, i) /\ DupLo(i) > DupHi(i)
           THEN \* random.randint on an empty range raises ValueError
                /\ Abort("ValueError")
                /\ UNCHANGED invoices_data
           ELSE \E sel0 \in Selections(status, pos_with_gr, gr_data, approved_vendors),
                   exception_type \in IF status = "EXCEPTION" THEN ExceptionTypes ELSE {"none"},
                   factor \in MismatchFactorDraws,
                   k \in IF Duplicates(status, i) THEN DupLo(i)..DupHi(i) ELSE {-1},
                   suffix \in SuffixDraws,
                   invoice_date_draw \in DateDraws(InvoiceDateDraws) :
                   LET sel == InjectException(sel0, status, exception_type, factor)
                       anomalies == Anomalies(sel0, status, exception_type)
                       invoice_date == InvoiceDate(cfg.now, invoice_date_draw)
                   IN  IF Duplicates(status, i)
                       THEN IF InRange(invoices_data, k)
                            THEN LET duplicate_invoice == ListGet(invoices_data, k)
                                 IN  /\ \E tax \in TaxOutcomes(sel.amount) :
                                            invoices_data' = Append(invoices_data,
                                                Invoice(i, status, sel,
                                                        DuplicateVendor(duplicate_invoice, sel),
                                                        duplicate_invoice.invoice_number,
                                                        invoice_date, tax,
                                                        exception_type, anomalies, k))
                                     /\ UNCHANGED <<pc, error>>
                            ELSE /\ Abort("IndexError")
                                 /\ UNCHANGED invoices_data
                       ELSE /\ \E tax \in TaxOutcomes(sel.amount) :
                                   invoices_data' = Append(invoices_data,
                                       Invoice(i, status, sel, sel.vendor_id,
                                               FreshInvoiceNumber(sel.vendor_id, suffix),
                                               invoice_date, tax,
                                               exception_type, anomalies, -1))
                            /\ UNCHANGED <<pc, error>>
    /\ UNCHANGED <<cfg, csv, pos_with_gr, invoice_statuses, phase1Vars, phase2Vars, afterPhase3>>

\* invoices_df.to_csv(DATA_DIR / "invoices.csv"), then the summary prints.
ExportInvoices ==
    /\ pc = "invoice_loop"
    /\ Len(invoices_data) = cfg.NUM_INVOICES
    /\ csv' = csv @@ ("invoices.csv" :> invoices_data)
    /\ IF invoices_data = <<>>
       THEN Abort("KeyError")
       ELSE /\ pc' = "supplier_history"
            /\ UNCHANGED error
    /\ UNCHANGED <<cfg, phase1Vars, phase2Vars, phase3Vars, afterPhase3>>

----------------------------------------------------------------------------
(* Phase 4: supplier history *)

\* round(random.uniform(85, 98), 2), in hundredths.
OnTimeDraws == {8500, 8799, 8800, 9500, 9501, 9600, 9800}

\* round(random.uniform(0, 5), 2), in hundredths.
DisputeDraws == {0, 100, 199, 200, 400, 401, 500}

\* Mutant: the on-time threshold of the RENEW branch taken inclusively.
Recommendations_AtLeast95(on_time_rate, dispute_rate, risk) ==
    IF on_time_rate >= 9500 /\ dispute_rate < 200 /\ risk = "LOW"
    THEN {[recommendation |-> "RENEW", risk_trend |-> "STABLE"]}
    ELSE IF on_time_rate < 8800 \/ dispute_rate > 400 \/ risk = "HIGH"
    THEN {[recommendation |-> "RETENDER", risk_trend |-> "DECLINING"]}
    ELSE {[recommendation |-> "MONITOR", risk_trend |-> t] : t \in {"STABLE", "IMPROVING"}}

\* Mutant: the RENEW branch taken whatever the risk band.
Recommendations_RenewAnyRisk(on_time_rate, dispute_rate, risk) ==
    IF on_time_rate > 9500 /\ dispute_rate < 200
    THEN {[recommendation |-> "RENEW", risk_trend |-> "STABLE"]}
    ELSE IF on_time_rate < 8800 \/ dispute_rate > 400 \/ risk = "HIGH"
    THEN {[recommendation |-> "RETENDER", risk_trend |-> "DECLINING"]}
    ELSE {[recommendation |-> "MONITOR", risk_trend |-> t] : t \in {"STABLE", "IMPROVING"}}

\* The if / elif / else of lines 325-333; the outcomes over random.choice.
Recommendations(on_time_rate, dispute_rate, risk) ==
    IF on_time_rate > 9500 /\ dispute_rate < 200 /\ risk = "LOW"
    THEN {[recommendation |-> "RENEW", risk_trend |-> "STABLE"]}
    ELSE IF on_time_rate < 8800 \/ dispute_rate > 400 \/ risk = "HIGH"
    THEN {[recommendation |-> "RETENDER", risk_trend |-> "DECLINING"]}
    ELSE {[recommendation |-> "MONITOR", risk_trend |-> t] : t \in {"STABLE", "IMPROVING"}}

\* Mutant: every row counting a single invoice.
History_OneInvoice(vendor_id, vendor_invoices, on_time_rate, dispute_rate, risk, rec) ==
    [vendor_id                |-> vendor_id,
     total_invoices_processed |-> 1,
     on_time_payment_rate     |-> on_time_rate,
     dispute_rate             |-> dispute_rate,
     risk_band                |-> risk,
     risk_trend               |-> rec.risk_trend,
     recommendation           |-> rec.recommendation]

\* The history dict (lines 335-350).
History(vendor_id, vendor_invoices, on_time_rate, dispute_rate, risk, rec) ==
    [vendor_id                |-> vendor_id,
     total_invoices_processed |-> Len(vendor_invoices),
     on_time_payment_rate     |-> on_time_rate,
     dispute_rate             |-> dispute_rate,
     risk_band                |-> risk,
     risk_trend               |-> rec.risk_trend,
     recommendation           |-> rec.recommendation]

\* Mutant: no vendor skipped.
SkipsVendor_Never(vendor_invoices) == FALSE

\* if len(vendor_invoices) == 0: continue
SkipsVendor(vendor_invoices) == Len(vendor_invoices) = 0

\* One iteration of the loop over approved_vendors.
GenerateHistory ==
    /\ pc = "supplier_history"
    /\ history_pos < Len(approved_vendors)
    /\ history_pos' = history_pos + 1
    /\ LET vendor_id == approved_vendors[history_pos + 1]
           vendor_invoices == Filter(invoices_data, "vendor_id", vendor_id)
           vendor_info == Filter(vendors_df, "vendor_id", vendor_id)[1]
           risk == vendor_info.risk_band
       IN  IF SkipsVendor(vendor_invoices)
           THEN UNCHANGED supplier_history
           ELSE \E on_time_rate \in OnTimeDraws, dispute_rate \in DisputeDraws :
                \E rec \in Recommendations(on_time_rate, dispute_rate, risk) :
                    supplier_history' = Append(supplier_history,
                        History(vendor_id, vendor_invoices, on_time_rate, dispute_rate,
                                risk, rec))
    /\ UNCHANGED <<pc, error, cfg, csv, phase1Vars, phase2Vars, phase3Vars, afterPhase4>>

\* supplier_df.to_csv(DATA_DIR / "supplier_history.csv"), then the summary prints.
ExportHistory ==
    /\ pc = "supplier_history"
    /\ history_pos = Len(approved_vendors)
    /\ csv' = csv @@ ("supplier_history.csv" :> supplier_history)
    /\ IF supplier_history = <<>>
       THEN \* pd.DataFrame([]) has no 'recommendation' column
            Abort("KeyError")
       ELSE /\ pc' = "events"
            /\ UNCHANGED error
    /\ UNCHANGED <<cfg, phase1Vars, phase2Vars, phase3Vars, phase4Vars, afterPhase4>>

----------------------------------------------------------------------------
(* Phase 5: the events log (lines 362-432) *)

\* The part of a day a fresh datetime.now() (line 386) can fall in, in seconds
\* after midnight: 09:30:00 and 21:59:59.
ClockTimeDraws == {34200, 79199}

\* Whole days between the clock reading of line 95 and a later reading of the run.
ElapsedDayDraws == {0, 1}

\* random.randint(0, 59), random.randint(9, 18), random.randint(0, 59) (lines 389-391).
EventDayDraws == {0, 59}
EventHourDraws == {9, 18}
EventMinuteDraws == {0, 59}

\* Two of the nineteen event_types (lines 375-383), each as its words between
\* the underscores.
EventTypeDraws == {<<"VENDOR", "CREATED">>, <<"INVOICE", "RECEIVED">>}

\* Mutant: every event type taken to mention an invoice.
MentionsInvoice_Always(event_type) == TRUE

\* 'INVOICE' in event_type: every type of the list holding the substring holds it
\* as a whole word.
MentionsInvoice(event_type) == \E k \in DOMAIN event_type : event_type[k] = "INVOICE"

\* f"EVT-{i:05d}"
EventId(i) == <<"EVT", ZeroPad(Digits(i), 5)>>

\* event_start + timedelta(days, hours, minutes): a datetime as its day number and
\* its seconds after midnight.
EventTime(start, days, hours, minutes) ==
    LET secs == start.secs + 3600 * hours + 60 * minutes
    IN  [day |-> start.day + days + secs \div 86400, secs |-> secs % 86400]

\* dt.strftime('%Y-%m-%d %H:%M:%S')
StrftimeSeconds(t) ==
    Strftime(t.day) \o <<ZeroPad(Digits(t.secs \div 3600), 2),
                         ZeroPad(Digits((t.secs % 3600) \div 60), 2),
                         ZeroPad(Digits(t.secs % 60), 2)>>

\* The characters of a formatted timestamp less its separators, which stand at the
\* same places in every timestamp.
RECURSIVE Flatten(_)
Flatten(fields) == IF fields = <<>> THEN <<>> ELSE Head(fields) \o Flatten(Tail(fields))

\* a <= b for str as Python compares them: character by character.
RECURSIVE StrLeq(_, _)
StrLeq(a, b) ==
    IF a = <<>> THEN TRUE
    ELSE IF b = <<>> THEN FALSE
    ELSE IF a[1] # b[1] THEN a[1] < b[1]
    ELSE StrLeq(Tail(a), Tail(b))

\* Mutant: the rows left in the order they were generated.
SortValues_Unsorted(rows, column) == {rows}

\* df.sort_values(column): the rows in ascending order of the column; the default
\* quicksort is not stable, so rows with equal keys come in any order.
SortValues(rows, column) ==
    LET n == Len(rows)
        Orders == {f \in [1..n -> 1..n] : \A j, k \in 1..n : j # k => f[j] # f[k]}
    IN  {[k \in 1..n |-> rows[f[k]]] : f \in
            {g \in Orders : \A k \in 1..(n - 1) :
                StrLeq(Flatten(rows[g[k]][column]), Flatten(rows[g[k + 1]][column]))}}

\* The event dict (lines 411-422) less agent_name, description, status,
\* confidence_score and processing_time_ms.
Event(i, event_time, vendor_id, invoice_id, event_type) ==
    [event_id   |-> EventId(i),
     timestamp  |-> StrftimeSeconds(event_time),
     vendor_id  |-> vendor_id,
     invoice_id |-> invoice_id,
     event_type |-> event_type]

\* events_data = []; event_start = datetime.now() - timedelta(days=60)
StartEvents ==
    /\ pc = "events"
    /\ pc' = "event_loop"
    /\ \E elapsed \in DateDraws(ElapsedDayDraws), secs \in DateDraws(ClockTimeDraws) :
           event_start' = [day |-> (cfg.now + elapsed) - 60, secs |-> secs]
    /\ events_data' = <<>>
    /\ UNCHANGED <<error, cfg, csv, phase1Vars, phase2Vars, phase3Vars, phase4Vars,
                   events_df, phase6Vars, phase7Vars, reruns>>

\* One iteration of the loop over range(1, NUM_EVENTS + 1). approved_vendors and
\* the invoice table are not empty here: the run aborts before in either case.
GenerateEvent ==
    /\ pc = "event_loop"
    /\ Len(events_data) < cfg.NUM_EVENTS
    /\ \E days \in DateDraws(EventDayDraws), hours \in DateDraws(EventHourDraws),
          minutes \in DateDraws(EventMinuteDraws), vendor_id \in Range(approved_vendors),
          event_type \in EventTypeDraws :
       \E invoice_id \in IF MentionsInvoice(event_type)
                         THEN Range(Column(invoices_data, "invoice_id"))
                         ELSE {EmptyStr} :
           events_data' = Append(events_data,
               Event(Len(events_data) + 1, EventTime(event_start, days, hours, minutes),
                     vendor_id, invoice_id, event_type))
    /\ UNCHANGED <<pc, error, cfg, csv, phase1Vars, phase2Vars, phase3Vars, phase4Vars,
                   event_start, events_df, phase6Vars, phase7Vars, reruns>>

\* events_df = pd.DataFrame(events_data).sort_values('timestamp'), then to_csv and
\* the summary prints.
ExportEvents ==
    /\ pc = "event_loop"
    /\ Len(events_data) = cfg.NUM_EVENTS
    /\ IF events_data = <<>>
       THEN \* pd.DataFrame([]) has no 'timestamp' column
            /\ Abort("KeyError")
            /\ UNCHANGED <<csv, events_df>>
       ELSE /\ events_df' \in SortValues(events_data, "timestamp")
            /\ csv' = csv @@ ("events_sample.csv" :> events_df')
            /\ pc' = "manifest"
            /\ UNCHANGED error
    /\ UNCHANGED <<cfg, phase1Vars, phase2Vars, phase3Vars, phase4Vars, event_start,
                   events_data, phase6Vars, phase7Vars, reruns>>

----------------------------------------------------------------------------
(* Phase 6: the manifest (lines 434-457) *)

\* The keys of the manifest whose value is the len() of a table (lines 444-448).
ManifestTotals ==
    {"total_vendors", "total_invoices", "total_purchase_orders", "total_goods_receipts",
     "total_events"}

\* The keys of the manifest whose value is a str.
ManifestTexts ==
    {"dataset_name", "version", "generated_date", "date_range_start", "date_range_end",
     "agents_covered", "personas_supported", "file_formats"}

\* Mutant: the goods receipts counted from the purchase order table.
Manifest_GrFromPOs(vendors, invoices, pos, grs, events, generated, range_start, range_end) ==
    [dataset_name          |-> "Source-to-Settle AI Demo Dataset",
     version               |-> "1.0.0",
     generated_date        |-> generated,
     total_vendors         |-> Len(vendors),
     total_invoices        |-> Len(invoices),
     total_purchase_orders |-> Len(pos),
     total_goods_receipts  |-> Len(pos),
     total_events          |-> Len(events),
     date_range_start      |-> range_start,
     date_range_end        |-> range_end,
     agents_covered        |-> "VendorIntake,RiskGuard,ContractCraft,InvoiceIQ,PayFlow,Supplier360",
     personas_supported    |-> "Ananya(Procurement),Rohan(Finance),Neha(Manager)",
     file_formats          |-> "CSV,PDF,XLSX,DOCX,JPG,PNG,JSON,HTML"]

\* The manifest dict (lines 440-454).
Manifest(vendors, invoices, pos, grs, events, generated, range_start, range_end) ==
    [dataset_name          |-> "Source-to-Settle AI Demo Dataset",
     version               |-> "1.0.0",
     generated_date        |-> generated,
     total_vendors         |-> Len(vendors),
     total_invoices        |-> Len(invoices),
     total_purchase_orders |-> Len(pos),
     total_goods_receipts  |-> Len(grs),
     total_events          |-> Len(events),
     date_range_start      |-> range_start,
     date_range_end        |-> range_end,
     agents_covered        |-> "VendorIntake,RiskGuard,ContractCraft,InvoiceIQ,PayFlow,Supplier360",
     personas_supported    |-> "Ananya(Procurement),Rohan(Finance),Neha(Manager)",
     file_formats          |-> "CSV,PDF,XLSX,DOCX,JPG,PNG,JSON,HTML"]

\* manifest = {...}; pd.DataFrame([manifest]).to_csv(DATA_DIR / "manifest_summary.csv"),
\* then the final summary prints. The two datetime.now() of the dict are read one
\* after the other, neither before the reading of line 386.
WriteManifest ==
    /\ pc = "manifest"
    /\ pc' = "done"
    /\ LET Days == {cfg.now + elapsed : elapsed \in DateDraws(ElapsedDayDraws)}
           read == [day |-> event_start.day + 60, secs |-> event_start.secs]
       IN  \E generated \in {t \in [day : Days, secs : DateDraws(ClockTimeDraws)] :
                                 \/ t.day > read.day
                                 \/ t.day = read.day /\ t.secs >= read.secs} :
           \E range_end \in {d \in Days : d >= generated.day} :
               manifest' = Manifest(vendors_df, invoices_data, po_data, gr_data, events_df,
                                    StrftimeSeconds(generated), Strftime(cfg.now - 90),
                                    Strftime(range_end))
    /\ csv' = csv @@ ("manifest_summary.csv" :> <<manifest'>>)
    /\ UNCHANGED <<error, cfg, phase1Vars, phase2Vars, phase3Vars, phase4Vars, phase5Vars,
                   phase7Vars, reruns>>

----------------------------------------------------------------------------

(* generate_pdfs.py: the invoice PDFs (lines 250-280) *)

\* if format_choice == 'digital' or idx < 40
DigitalBelow == 40

\* random.choices(['digital', 'scanned', 'image'], weights=[50, 40, 10])[0]
FormatChoices == {"digital", "scanned", "image"}

\* DATA_DIR / "invoices_pdf" / f"{invoice_id}_{kind}.pdf"
PdfPath(invoice_id, kind) == <<"invoices_pdf", invoice_id, kind, "pdf">>

\* The if / elif of lines 266-273: the kind of PDF written for a row, if any.
PdfKinds(format_choice, idx) ==
    IF format_choice = "digital" \/ idx < DigitalBelow THEN {"digital"}
    ELSE IF format_choice = "scanned" THEN {"scanned"}
    ELSE {}

\* print(f"   Generated {len(invoices_df)} invoice PDFs"): the count the run reports.
ReportedInvoicePdfs(invoices_df) == Len(invoices_df)

\* generate_pdfs.py started after the data run ended: the tables read back from
\* vendors.csv, invoices.csv and po_gr.csv (lines 34-36).
LoadPdfTables ==
    /\ pc = "done"
    /\ IF {"vendors.csv", "invoices.csv", "po_gr.csv"} \subseteq DOMAIN csv
       THEN /\ pc' = "invoice_pdfs"
            /\ UNCHANGED error
       ELSE Abort("FileNotFoundError")
    /\ pdf_idx' = 0
    /\ pdf_files' = {}
    /\ digital_count' = 0
    /\ scanned_count' = 0
    /\ UNCHANGED <<cfg, csv, phase1Vars, phase2Vars, phase3Vars, phase4Vars, phase5Vars,
                   phase6Vars, reruns>>

\* One iteration of the loop over invoices_df.iterrows(); the tables are the ones
\* read back from vendors.csv and invoices.csv, idx the 0-based row index.
GenerateInvoicePdf ==
    /\ pc = "invoice_pdfs"
    /\ pdf_idx < Len(csv["invoices.csv"])
    /\ LET idx == pdf_idx
           invoice_row == csv["invoices.csv"][idx + 1]
           vendor_rows == Filter(csv["vendors.csv"], "vendor_id", invoice_row.vendor_id)
       IN  IF vendor_rows = <<>>
           THEN \* .iloc[0] on an empty selection raises IndexError
                /\ Abort("IndexError")
                /\ UNCHANGED phase7Vars
           ELSE \E format_choice \in FormatChoices :
                LET kinds == PdfKinds(format_choice, idx)
                IN  /\ pdf_files' = pdf_files \cup {PdfPath(invoice_row.invoice_id, k) : k \in kinds}
                    /\ digital_count' = digital_count + (IF "digital" \in kinds THEN 1 ELSE 0)
                    /\ scanned_count' = scanned_count + (IF "scanned" \in kinds THEN 1 ELSE 0)
                    /\ pdf_idx' = pdf_idx + 1
                    /\ UNCHANGED <<pc, error>>
    /\ UNCHANGED <<cfg, csv, phase1Vars, phase2Vars, phase3Vars, phase4Vars, phase5Vars,
                   phase6Vars, reruns>>

\* The loop is over: the prints of lines 278-280, then the KYC documents.
ReportInvoicePdfs ==
    /\ pc = "invoice_pdfs"
    /\ pdf_idx = Len(csv["invoices.csv"])
    /\ pc' = "kyc_pdfs"
    /\ UNCHANGED <<error, cfg, csv, phase1Vars, phase2Vars, phase3Vars, phase4Vars, phase5Vars,
                   phase6Vars, phase7Vars, reruns>>

----------------------------------------------------------------------------

(* The pipeline from the vendor table on, short runs *)

\* Every way to give n invoices a status: the pools of size n.
RECURSIVE Pools(_)
Pools(n) ==
    IF n = 0 THEN {[s \in InvoiceStatuses |-> 0]}
    ELSE {[p EXCEPT ![s] = @ + 1] : p \in Pools(n - 1), s \in InvoiceStatuses}

\* The vendor table phase 1 leaves for a shuffled status pool (all vendors
\* domestic and LOW risk: neither is read before phase 4).
VendorTable(pool) ==
    [i \in DOMAIN pool |-> Vendor(i, PoolEntry(pool, i), "LOW", TRUE, "USA")]

\* The state at line 144, after phase 1 ran on some status pool of NumVendors entries.
Init ==
    /\ pc = "procurement"
    /\ error = ""
    /\ statuses \in [1..NumVendors -> VendorStatuses]
    /\ risk_bands = Repeat("LOW", NumVendors)
    /\ vendors_data = VendorTable(statuses)
    /\ vendors_df = vendors_data
    /\ \E m \in 0..MaxPOs, pool \in Pools(NumInvoices) :
           cfg = Config(NumVendors, m, NumInvoices, 0, pool, FALSE, Lowest(ClockDraws))
    /\ approved_vendors = <<>>
    /\ po_data = <<>>
    /\ gr_data = <<>>
    /\ pos_with_gr = <<>>
    /\ invoice_statuses = <<>>
    /\ invoices_data = <<>>
    /\ history_pos = 0
    /\ reruns = NoReruns
    /\ event_start = Unset
    /\ events_data = <<>>
    /\ events_df = <<>>
    /\ manifest = Unset
    /\ pdf_idx = 0
    /\ pdf_files = {}
    /\ digital_count = 0
    /\ scanned_count = 0
    /\ supplier_history = <<>>
    /\ csv = ("vendors.csv" :> vendors_df)

Next ==
    \/ FilterApproved
    \/ GeneratePO
    \/ ExportProcurement
    \/ ShuffleInvoiceStatuses
    \/ GenerateInvoice
    \/ ExportInvoices

Spec == Init /\ [][Next]_vars

----------------------------------------------------------------------------
(* The invoice phase alone, runs long enough for the duplicate look-back *)

\* A procurement outcome the invoice phase can start from: one CLOSED purchase
\* order of the first vendor with its goods receipt.
OnePO ==
    PurchaseOrder(1, VendorId(1), PoDate(Lowest(ClockDraws), Lowest(PoDateDraws)),
                  5000000, TRUE)
OneGR ==
    GoodsReceipt(1, 1, VendorId(1),
                 GrDate(PoDate(Lowest(ClockDraws), Lowest(PoDateDraws)), Lowest(GrDelayDraws)),
                 GrAmount(5000000, TRUE, 1000))

\* Two approved vendors and DupAfter + 1 invoices, or one approved vendor and
\* more invoices (up to DupWindow + 2, where the look-back window no longer
\* starts at the first invoice); every invoice PENDING except the DUPLICATE ones.
DupScenarios ==
    {[statuses |-> <<"APPROVED", "APPROVED", "PENDING">>, n |-> DupAfter + 1, dups |-> 1],
     [statuses |-> <<"APPROVED", "REJECTED">>, n |-> DupAfter + 3, dups |-> 3],
     [statuses |-> <<"APPROVED", "REJECTED">>, n |-> DupWindow + 2, dups |-> 1]}

InitDup ==
    /\ pc = "invoices"
    /\ error = ""
    /\ \E sc \in DupScenarios :
           /\ statuses = sc.statuses
           /\ cfg = Config(Len(sc.statuses), 1, sc.n, 0,
                           [s \in InvoiceStatuses |->
                               IF s = "DUPLICATE" THEN sc.dups
                               ELSE IF s = "PENDING" THEN sc.n - sc.dups ELSE 0],
                           FALSE, Lowest(ClockDraws))
    /\ risk_bands = Repeat("LOW", Len(statuses))
    /\ vendors_data = VendorTable(statuses)
    /\ vendors_df = vendors_data
    /\ approved_vendors = ApprovedVendorIds(vendors_df)
    /\ po_data = <<OnePO>>
    /\ gr_data = <<OneGR>>
    /\ pos_with_gr = <<>>
    /\ invoice_statuses = <<>>
    /\ invoices_data = <<>>
    /\ history_pos = 0
    /\ reruns = NoReruns
    /\ event_start = Unset
    /\ events_data = <<>>
    /\ events_df = <<>>
    /\ manifest = Unset
    /\ pdf_idx = 0
    /\ pdf_files = {}
    /\ digital_count = 0
    /\ scanned_count = 0
    /\ supplier_history = <<>>
    /\ csv = ("vendors.csv" :> vendors_df) @@ ("po_gr.csv" :> po_data)

NextDup ==
    \/ ShuffleInvoiceStatuses
    \/ GenerateInvoice
    \/ ExportInvoices

SpecDup == InitDup /\ [][NextDup]_vars

----------------------------------------------------------------------------
(* The supplier history phase alone *)

\* Vendor tables and invoice vendors the phase can start from: two approved vendors
\* and one that is not, the risk bands in any order of the pool, and PENDING
\* invoices of the listed vendors.
HistoryScenarios ==
    {[risks |-> r, invoice_vendors |-> v] :
        r \in Shuffles(<<"LOW", "MEDIUM", "HIGH">>), v \in {<<1, 2>>, <<2, 2>>, <<1>>}}

HistoryVendors(risks) ==
    [i \in 1..3 |-> Vendor(i, <<"APPROVED", "APPROVED", "PENDING">>[i], risks[i], TRUE, "USA")]

HistoryInvoices(invoice_vendors) ==
    [i \in DOMAIN invoice_vendors |->
        LET sel == [vendor_id |-> VendorId(invoice_vendors[i]), po_reference |-> EmptyStr,
                    gr_reference |-> EmptyStr, amount |-> Paise(1000000)]
        IN  Invoice(i, "PENDING", sel, sel.vendor_id,
                    FreshInvoiceNumber(sel.vendor_id, <<4, 0, 4, 2>>),
                    InvoiceDate(Lowest(ClockDraws), Lowest(InvoiceDateDraws)),
                    CHOOSE tax \in TaxOutcomes(sel.amount) : TRUE,
                    "none", {}, -1)]

InitHistory ==
    /\ pc = "supplier_history"
    /\ error = ""
    /\ \E sc \in HistoryScenarios :
           /\ risk_bands = sc.risks
           /\ invoices_data = HistoryInvoices(sc.invoice_vendors)
    /\ statuses = <<"APPROVED", "APPROVED", "PENDING">>
    /\ vendors_data = HistoryVendors(risk_bands)
    /\ vendors_df = vendors_data
    /\ approved_vendors = ApprovedVendorIds(vendors_df)
    /\ po_data = <<OnePO>>
    /\ gr_data = <<OneGR>>
    /\ pos_with_gr = ClosedPOs(po_data)
    /\ invoice_statuses = Column(invoices_data, "status")
    /\ cfg = Config(Len(statuses), 1, Len(invoices_data), 0, Count(invoice_statuses),
                    FALSE, Lowest(ClockDraws))
    /\ csv = ("vendors.csv" :> vendors_df) @@ ("po_gr.csv" :> po_data)
               @@ ("invoices.csv" :> invoices_data)
    /\ history_pos = 0
    /\ reruns = NoReruns
    /\ event_start = Unset
    /\ events_data = <<>>
    /\ events_df = <<>>
    /\ manifest = Unset
    /\ pdf_idx = 0
    /\ pdf_files = {}
    /\ digital_count = 0
    /\ scanned_count = 0
    /\ supplier_history = <<>>

NextHistory ==
    \/ GenerateHistory
    \/ ExportHistory

SpecHistory == InitHistory /\ [][NextHistory]_vars

----------------------------------------------------------------------------
(* The pipeline from the vendor table on, with the dates varied *)

\* One approved vendor and one that is not, one or two purchase orders and one
\* MATCHED invoice; the clock read on any of ClockDraws.
InitDates ==
    /\ pc = "procurement"
    /\ error = ""
    /\ statuses = <<"APPROVED", "PENDING">>
    /\ risk_bands = Repeat("LOW", Len(statuses))
    /\ vendors_data = VendorTable(statuses)
    /\ vendors_df = vendors_data
    /\ \E m \in 1..2, now \in ClockDraws :
           cfg = Config(Len(statuses), m, 1, 0,
                        [s \in InvoiceStatuses |-> IF s = "MATCHED" THEN 1 ELSE 0],
                        TRUE, now)
    /\ approved_vendors = <<>>
    /\ po_data = <<>>
    /\ gr_data = <<>>
    /\ pos_with_gr = <<>>
    /\ invoice_statuses = <<>>
    /\ invoices_data = <<>>
    /\ history_pos = 0
    /\ reruns = NoReruns
    /\ event_start = Unset
    /\ events_data = <<>>
    /\ events_df = <<>>
    /\ manifest = Unset
    /\ pdf_idx = 0
    /\ pdf_files = {}
    /\ digital_count = 0
    /\ scanned_count = 0
    /\ supplier_history = <<>>
    /\ csv = ("vendors.csv" :> vendors_df)

SpecDates == InitDates /\ [][Next]_vars

----------------------------------------------------------------------------
(* The events log and the manifest, from a finished supplier history *)

MaxEvents == 2        \* NUM_EVENTS ranges over 0..MaxEvents

\* An OPEN purchase order beside OnePO, so that the tables differ in size.
OpenPO ==
    PurchaseOrder(2, VendorId(2), PoDate(Lowest(ClockDraws), Lowest(PoDateDraws)),
                  5000000, FALSE)

\* The rows phase 4 leaves for the approved vendors holding an invoice, on one
\* draw of the two rates.
EventsHistory(vendors, invoices) ==
    LET approved == ApprovedVendorIds(vendors)
        invoiced == SelectSeq(approved, LAMBDA v : ~SkipsVendor(Filter(invoices, "vendor_id", v)))
    IN  [k \in DOMAIN invoiced |->
            LET risk == Filter(vendors, "vendor_id", invoiced[k])[1].risk_band
            IN  History(invoiced[k], Filter(invoices, "vendor_id", invoiced[k]), 9600, 100,
                        risk, CHOOSE rec \in Recommendations(9600, 100, risk) : TRUE)]

\* The state at line 362: three vendors (two approved), two purchase orders, one
\* goods receipt, one or two invoices and a history row for each invoiced vendor.
InitEvents ==
    /\ pc = "events"
    /\ error = ""
    /\ statuses = <<"APPROVED", "APPROVED", "PENDING">>
    /\ risk_bands = <<"LOW", "MEDIUM", "HIGH">>
    /\ vendors_data = HistoryVendors(risk_bands)
    /\ vendors_df = vendors_data
    /\ approved_vendors = ApprovedVendorIds(vendors_df)
    /\ po_data = <<OnePO, OpenPO>>
    /\ gr_data = <<OneGR>>
    /\ pos_with_gr = ClosedPOs(po_data)
    /\ \E invoice_vendors \in {<<1, 2>>, <<1>>} :
           invoices_data = HistoryInvoices(invoice_vendors)
    /\ invoice_statuses = Column(invoices_data, "status")
    /\ \E num_events \in 0..MaxEvents, now \in ClockDraws :
           cfg = Config(Len(statuses), Len(po_data), Len(invoices_data), num_events,
                        Count(invoice_statuses), TRUE, now)
    /\ history_pos = Len(approved_vendors)
    /\ supplier_history = EventsHistory(vendors_df, invoices_data)
    /\ csv = ("vendors.csv" :> vendors_df) @@ ("po_gr.csv" :> po_data)
               @@ ("invoices.csv" :> invoices_data)
               @@ ("supplier_history.csv" :> supplier_history)
    /\ reruns = NoReruns
    /\ event_start = Unset
    /\ events_data = <<>>
    /\ events_df = <<>>
    /\ manifest = Unset
    /\ pdf_idx = 0
    /\ pdf_files = {}
    /\ digital_count = 0
    /\ scanned_count = 0

NextEvents ==
    \/ StartEvents
    \/ GenerateEvent
    \/ ExportEvents
    \/ WriteManifest

SpecEvents == InitEvents /\ [][NextEvents]_vars

----------------------------------------------------------------------------

(* The invoice PDFs, from the exported tables *)

MaxPdfInvoices == 42  \* the invoice table read back holds 0..MaxPdfInvoices rows

\* The state when generate_pdfs.py starts its loop (line 255): three vendors, two of
\* them approved, and an invoice table of PENDING invoices shared between the two.
InitPdfs ==
    /\ pc = "invoice_pdfs"
    /\ error = ""
    /\ statuses = <<"APPROVED", "APPROVED", "PENDING">>
    /\ risk_bands = <<"LOW", "MEDIUM", "HIGH">>
    /\ vendors_data = HistoryVendors(risk_bands)
    /\ vendors_df = vendors_data
    /\ approved_vendors = ApprovedVendorIds(vendors_df)
    /\ po_data = <<OnePO, OpenPO>>
    /\ gr_data = <<OneGR>>
    /\ pos_with_gr = ClosedPOs(po_data)
    /\ \E n \in 0..MaxPdfInvoices :
           invoices_data = HistoryInvoices([i \in 1..n |-> 1 + (i % 2)])
    /\ invoice_statuses = Column(invoices_data, "status")
    /\ cfg = Config(Len(statuses), Len(po_data), Len(invoices_data), 0,
                    Count(invoice_statuses), FALSE, Lowest(ClockDraws))
    /\ history_pos = Len(approved_vendors)
    /\ supplier_history = EventsHistory(vendors_df, invoices_data)
    /\ csv = ("vendors.csv" :> vendors_df) @@ ("po_gr.csv" :> po_data)
               @@ ("invoices.csv" :> invoices_data)
               @@ ("supplier_history.csv" :> supplier_history)
    /\ reruns = NoReruns
    /\ event_start = Unset
    /\ events_data = <<>>
    /\ events_df = <<>>
    /\ manifest = Unset
    /\ pdf_idx = 0
    /\ pdf_files = {}
    /\ digital_count = 0
    /\ scanned_count = 0

NextPdfs ==
    \/ GenerateInvoicePdf
    \/ ReportInvoicePdfs

SpecPdfs == InitPdfs /\ [][NextPdfs]_vars

----------------------------------------------------------------------------

(* Both scripts in a row, from the shuffled invoice status pool to the invoice PDFs *)

\* A shuffle of a pool of DupAfter + 1 statuses that ends on two DUPLICATE, the
\* first of them too early to copy.
PipelineStatuses ==
    <<"MATCHED", "PENDING", "EXCEPTION">> \o Repeat("PENDING", DupAfter - 4)
        \o <<"DUPLICATE", "DUPLICATE">>

\* The state at line 217: one approved vendor between two that are not, a CLOSED
\* purchase order of that vendor, and one event to generate.
InitPipeline ==
    /\ pc = "invoice_loop"
    /\ error = ""
    /\ statuses = <<"PENDING", "APPROVED", "REJECTED">>
    /\ risk_bands = Repeat("LOW", Len(statuses))
    /\ vendors_data = VendorTable(statuses)
    /\ vendors_df = vendors_data
    /\ approved_vendors = ApprovedVendorIds(vendors_df)
    /\ po_data = <<PurchaseOrder(1, approved_vendors[1],
                                 PoDate(Lowest(ClockDraws), Lowest(PoDateDraws)), 5000000, TRUE)>>
    /\ gr_data = <<GoodsReceipt(1, 1, approved_vendors[1],
                                GrDate(PoDate(Lowest(ClockDraws), Lowest(PoDateDraws)),
                                       Lowest(GrDelayDraws)),
                                GrAmount(5000000, TRUE, 1000))>>
    /\ pos_with_gr = ClosedPOs(po_data)
    /\ invoice_statuses = PipelineStatuses
    /\ cfg = Config(Len(statuses), Len(po_data), Len(invoice_statuses), 1,
                    Count(invoice_statuses), FALSE, Lowest(ClockDraws))
    /\ invoices_data = <<>>
    /\ history_pos = 0
    /\ supplier_history = <<>>
    /\ csv = ("vendors.csv" :> vendors_df) @@ ("po_gr.csv" :> po_data)
    /\ reruns = NoReruns
    /\ event_start = Unset
    /\ events_data = <<>>
    /\ events_df = <<>>
    /\ manifest = Unset
    /\ pdf_idx = 0
    /\ pdf_files = {}
    /\ digital_count = 0
    /\ scanned_count = 0

NextPipeline ==
    \/ GenerateInvoice
    \/ ExportInvoices
    \/ GenerateHistory
    \/ ExportHistory
    \/ StartEvents
    \/ GenerateEvent
    \/ ExportEvents
    \/ WriteManifest
    \/ LoadPdfTables
    \/ GenerateInvoicePdf
    \/ ReportInvoicePdfs

SpecPipeline == InitPipeline /\ [][NextPipeline]_vars

----------------------------------------------------------------------------

(* Two runs with the same seed *)

NumRerunVendors == 2  \* vendors each of the two runs generates

\* random.randint(0, 150) of line 99 and random.randint(1, 30) of line 117.
OnboardingDraws == {0, 150}
LastUpdatedDraws == {1, 30}

\* The date fields of one vendor (lines 95, 99, 116, 117) in a run whose clock read now.
VendorDates(now, onboarding_draw, last_updated_draw) ==
    LET start_date == now - 180
        onboarding_date == start_date + onboarding_draw
    IN  [onboarding_date |-> Strftime(onboarding_date),
         last_updated    |-> Strftime(onboarding_date + last_updated_draw)]

\* One iteration of the vendor loop in both runs: the seed is the same, so both
\* take the same draws; each run adds them to its own start_date.
RerunVendor ==
    /\ pc = "rerun"
    /\ Len(reruns[1].vendors) < NumRerunVendors
    /\ \E onboarding_draw \in OnboardingDraws, last_updated_draw \in LastUpdatedDraws :
           reruns' = [r \in DOMAIN reruns |->
               [reruns[r] EXCEPT !.vendors =
                   Append(@, VendorDates(reruns[r].now, onboarding_draw, last_updated_draw))]]
    /\ UNCHANGED <<pc, error, cfg, csv, phase1Vars, phase2Vars, phase3Vars, phase4Vars,
                   phase5Vars, phase6Vars, phase7Vars>>

\* Both runs write their vendor table.
RerunExport ==
    /\ pc = "rerun"
    /\ Len(reruns[1].vendors) = NumRerunVendors
    /\ pc' = "rerun_done"
    /\ UNCHANGED <<error, cfg, csv, phase1Vars, phase2Vars, phase3Vars, phase4Vars,
                   phase5Vars, phase6Vars, phase7Vars, reruns>>

InitRerun ==
    /\ pc = "rerun"
    /\ error = ""
    /\ cfg = Config(NumRerunVendors, 0, 0, 0, [s \in {} |-> 0], FALSE, Lowest(ClockDraws))
    /\ csv = <<>>
    /\ statuses = <<>>
    /\ risk_bands = <<>>
    /\ vendors_data = <<>>
    /\ vendors_df = <<>>
    /\ approved_vendors = <<>>
    /\ po_data = <<>>
    /\ gr_data = <<>>
    /\ pos_with_gr = <<>>
    /\ invoice_statuses = <<>>
    /\ invoices_data = <<>>
    /\ history_pos = 0
    /\ supplier_history = <<>>
    /\ event_start = Unset
    /\ events_data = <<>>
    /\ events_df = <<>>
    /\ manifest = Unset
    /\ pdf_idx = 0
    /\ pdf_files = {}
    /\ digital_count = 0
    /\ scanned_count = 0
    /\ \E now1 \in ClockDraws, now2 \in ClockDraws :
           reruns = <<[now |-> now1, vendors |-> <<>>], [now |-> now2, vendors |-> <<>>]>>

NextRerun ==
    \/ RerunVendor
    \/ RerunExport

SpecRerun == InitRerun /\ [][NextRerun]_vars

----------------------------------------------------------------------------
(* Properties *)

Invoices == {invoices_data[k] : k \in DOMAIN invoices_data}
POs == {po_data[k] : k \in DOMAIN po_data}
GRs == {gr_data[k] : k \in DOMAIN gr_data}

VendorStatusOf(vendor_id) ==
    {vendors_df[k].status : k \in {j \in DOMAIN vendors_df : vendors_df[j].vendor_id = vendor_id}}

\* The 1-based position of the invoice a DUPLICATE at position i copied from.
DupSource(i) == invoices_data[i].dup_index + 1

Copied(i) == invoices_data[i].status = "DUPLICATE" /\ i > DupAfter

CopiesFrom(i, src) ==
    /\ src \in 1..(i - 1)
    /\ invoices_data[i].invoice_number = invoices_data[src].invoice_number
    /\ invoices_data[i].vendor_id = invoices_data[src].vendor_id

\* C1 as stated: a DUPLICATE invoice at 1-based index i > 10 copies its invoice_number
\* and vendor_id from the invoice at an index in [max(1, i-20), i-2], never from i-1.
C1_SourceWithinStatedWindow ==
    \A i \in DOMAIN invoices_data :
        Copied(i) =>
            /\ CopiesFrom(i, DupSource(i))
            /\ Max(1, i - 20) <= DupSource(i)
            /\ DupSource(i) <= i - 2

\* C1 amended: a DUPLICATE invoice at 1-based index i > 10 copies its invoice_number
\* and vendor_id from the invoice at an index in [max(1, i-19), i-1]: at most 19
\* earlier invoices are eligible and the immediately preceding one is among them.
C1_SourceWithinCodeWindow ==
    \A i \in DOMAIN invoices_data :
        Copied(i) =>
            /\ CopiesFrom(i, DupSource(i))
            /\ Max(1, i - 19) <= DupSource(i)
            /\ DupSource(i) <= i - 1

\* A DUPLICATE past the 20th invoice that copied from the far end of its window.
C1_Witness ==
    \E i \in DOMAIN invoices_data :
        /\ Copied(i)
        /\ i > 20
        /\ DupSource(i) = i - 19

GrsOf(po) == {k \in DOMAIN gr_data : gr_data[k].po_id = po.po_id}

\* C2: a purchase order is CLOSED exactly when one goods receipt names it, an OPEN
\* one has none, and every goods receipt names an existing CLOSED purchase order
\* (goods receipts and CLOSED purchase orders correspond one to one).
C2_ClosedIffOneGoodsReceipt ==
    /\ \A k \in DOMAIN po_data :
           /\ po_data[k].status = "CLOSED" <=> Cardinality(GrsOf(po_data[k])) = 1
           /\ po_data[k].status = "OPEN" => GrsOf(po_data[k]) = {}
    /\ \A g \in DOMAIN gr_data :
           Cardinality({k \in DOMAIN po_data :
                           po_data[k].po_id = gr_data[g].po_id
                           /\ po_data[k].status = "CLOSED"}) = 1
    /\ Len(gr_data) = Cardinality({k \in DOMAIN po_data : po_data[k].status = "CLOSED"})

\* The procurement phase is over with one CLOSED and one OPEN purchase order.
C2_Witness ==
    /\ pc = "invoices"
    /\ \E p, q \in POs : p.status = "CLOSED" /\ q.status = "OPEN"
    /\ gr_data # <<>>

ResolvesToClosedPO(inv) ==
    /\ inv.po_reference # EmptyStr
    /\ \E p \in POs : p.po_id = inv.po_reference /\ p.status = "CLOSED"

\* C3 as stated: every MATCHED invoice has a non-empty po_reference that resolves to
\* a CLOSED purchase order, whatever the procurement phase produced.
C3_MatchedAlwaysLinked ==
    \A inv \in Invoices : inv.status = "MATCHED" => ResolvesToClosedPO(inv)

\* C3 amended: when at least one purchase order is CLOSED every MATCHED invoice has a
\* non-empty po_reference that resolves to a CLOSED purchase order; when none is, a
\* MATCHED invoice is emitted with empty po_reference and gr_reference.
C3_MatchedLinkedWhenClosedExists ==
    \A inv \in Invoices :
        inv.status = "MATCHED" =>
            IF \E p \in POs : p.status = "CLOSED"
            THEN ResolvesToClosedPO(inv)
            ELSE inv.po_reference = EmptyStr /\ inv.gr_reference = EmptyStr

\* A MATCHED invoice linked to a CLOSED purchase order while another one is OPEN.
C3_Witness ==
    /\ \E inv \in Invoices : inv.status = "MATCHED" /\ ResolvesToClosedPO(inv)
    /\ \E p \in POs : p.status = "OPEN"

NoApprovedVendor == \A k \in DOMAIN vendors_df : vendors_df[k].status # "APPROVED"

NoInvoiceEmitted == invoices_data = <<>> /\ "invoices.csv" \notin DOMAIN csv

\* C5 as stated: with no approved vendor the run aborts with the error kind
\* "generation precondition failed" and emits no invoice.
C5_AbortsWithPreconditionError ==
    NoApprovedVendor =>
        /\ NoInvoiceEmitted
        /\ pc = "aborted" => error = "generation precondition failed"

\* C5 amended: with no approved vendor the run ends in procurement with an uncaught
\* Python exception - IndexError from random.choice on the empty list at the first
\* purchase order, KeyError from the summary when no purchase order was requested -
\* and emits no invoice; the code defines no error kind of its own.
C5_AbortsWithBuiltinError ==
    NoApprovedVendor =>
        /\ NoInvoiceEmitted
        /\ po_data = <<>> /\ gr_data = <<>>
        /\ pc \in {"procurement", "po_loop", "aborted"}
        /\ pc = "aborted" =>
               error = (IF cfg.NUM_POS > 0 THEN "IndexError" ELSE "KeyError")

\* A run with no approved vendor that aborted at its first purchase order.
C5_Witness ==
    /\ NoApprovedVendor
    /\ pc = "aborted"
    /\ error = "IndexError"
    /\ cfg.NUM_INVOICES > 0

\* C7: every EXCEPTION invoice carries exactly one injected anomaly: its amount was
\* perturbed relative to the purchase order it references, or its PO and GR
\* references were stripped; never none and never both.
C7_ExactlyOneAnomaly ==
    \A inv \in Invoices :
        inv.status = "EXCEPTION" => Cardinality(inv.anomalies) = 1

\* C9: every purchase order's vendor, and the vendor of every invoice that carries a
\* PO reference, is a vendor of the table whose status is APPROVED.
C9_OnlyApprovedVendorsReferenced ==
    /\ \A p \in POs : VendorStatusOf(p.vendor_id) = {"APPROVED"}
    /\ \A inv \in Invoices :
           inv.po_reference # EmptyStr => VendorStatusOf(inv.vendor_id) = {"APPROVED"}

\* A table with a vendor that is not approved, a purchase order and a PO-linked invoice.
C9_Witness ==
    /\ \E k \in DOMAIN vendors_df : vendors_df[k].status # "APPROVED"
    /\ \E inv \in Invoices : inv.po_reference # EmptyStr
    /\ po_data # <<>>

StatusCount(rows, st) == Cardinality({k \in DOMAIN rows : rows[k].status = st})

\* C8: once the vendors are generated, the table holds exactly as many APPROVED,
\* PENDING and REJECTED vendors as the status pool has entries of each, whatever
\* order the shuffle left the pool in.
C8_StatusCountsEqualPool ==
    pc = "procurement" =>
        /\ Len(vendors_df) = PoolApproved + PoolPending + PoolRejected
        /\ StatusCount(vendors_df, "APPROVED") = PoolApproved
        /\ StatusCount(vendors_df, "PENDING") = PoolPending
        /\ StatusCount(vendors_df, "REJECTED") = PoolRejected

\* The vendors are generated and the shuffle moved the pool's first entry.
C8_Witness ==
    /\ pc = "procurement"
    /\ vendors_df[1].status # "APPROVED"
    /\ "vendors.csv" \in DOMAIN csv

\* C10: every supplier history row carries the outcome of the decision table taken
\* in priority order: on_time_rate > 95 and dispute_rate < 2 and risk LOW give
\* (RENEW, STABLE); otherwise on_time_rate < 88 or dispute_rate > 4 or risk HIGH give
\* (RETENDER, DECLINING); otherwise (MONITOR, STABLE or IMPROVING).  The row's
\* risk_band is its vendor's; 96 / 1 / LOW gives exactly (RENEW, STABLE).
C10_DecisionTable ==
    \A k \in DOMAIN supplier_history :
        LET row == supplier_history[k]
            renew == /\ row.on_time_payment_rate > 9500
                     /\ row.dispute_rate < 200
                     /\ row.risk_band = "LOW"
            retender == \/ row.on_time_payment_rate < 8800
                        \/ row.dispute_rate > 400
                        \/ row.risk_band = "HIGH"
        IN  /\ \E v \in DOMAIN vendors_df :
                   /\ vendors_df[v].vendor_id = row.vendor_id
                   /\ vendors_df[v].risk_band = row.risk_band
            /\ renew => row.recommendation = "RENEW" /\ row.risk_trend = "STABLE"
            /\ ~renew /\ retender =>
                   row.recommendation = "RETENDER" /\ row.risk_trend = "DECLINING"
            /\ ~renew /\ ~retender =>
                   /\ row.recommendation = "MONITOR"
                   /\ row.risk_trend \in {"STABLE", "IMPROVING"}
            /\ (row.on_time_payment_rate = 9600 /\ row.dispute_rate = 100
                    /\ row.risk_band = "LOW") =>
                   row.recommendation = "RENEW" /\ row.risk_trend = "STABLE"

\* A row with on_time_rate 96, dispute_rate 1 and LOW risk, beside a MONITOR row.
C10_Witness ==
    /\ \E k \in DOMAIN supplier_history :
           /\ supplier_history[k].on_time_payment_rate = 9600
           /\ supplier_history[k].dispute_rate = 100
           /\ supplier_history[k].risk_band = "LOW"
           /\ supplier_history[k].recommendation = "RENEW"
    /\ \E k \in DOMAIN supplier_history :
           /\ supplier_history[k].recommendation = "MONITOR"
           /\ supplier_history[k].risk_trend = "IMPROVING"

\* C4: two runs with the same seed and the same counts write the same vendor table.
C4_SameSeedSameTables ==
    pc = "rerun_done" => reruns[1].vendors = reruns[2].vendors

\* The date strings are the calendar dates of the day numbers: the first vendor of a
\* run started on 2028-08-27 with draws 0 and 1 is onboarded on 2028-02-29.
C4_DatesFormatted ==
    /\ Strftime(20760) = <<<<2, 0, 2, 6>>, <<1, 1>>, <<0, 3>>>>
    /\ VendorDates(21423, 0, 1) =
           [onboarding_date |-> <<<<2, 0, 2, 8>>, <<0, 2>>, <<2, 9>>>>,
            last_updated    |-> <<<<2, 0, 2, 8>>, <<0, 3>>, <<0, 1>>>>]

\* C11: no supplier history row satisfies both the RENEW predicate and the RETENDER
\* predicate, so a row's recommendation is the same whichever of the two branches is
\* tested first: RENEW exactly when the RENEW predicate holds, RETENDER exactly when
\* the RETENDER predicate holds.  A HIGH-risk vendor is never RENEW and a RENEW vendor
\* is always LOW risk.
C11_RenewRetenderExclusive ==
    \A k \in DOMAIN supplier_history :
        LET row == supplier_history[k]
            renew == /\ row.on_time_payment_rate > 9500
                     /\ row.dispute_rate < 200
                     /\ row.risk_band = "LOW"
            retender == \/ row.on_time_payment_rate < 8800
                        \/ row.dispute_rate > 400
                        \/ row.risk_band = "HIGH"
        IN  /\ ~(renew /\ retender)
            /\ row.recommendation = "RENEW" <=> renew
            /\ row.recommendation = "RETENDER" <=> retender
            /\ row.risk_band = "HIGH" => row.recommendation # "RENEW"
            /\ row.recommendation = "RENEW" => row.risk_band = "LOW"

\* A HIGH-risk vendor whose KPIs pass the RENEW thresholds, beside a RENEW vendor.
C11_Witness ==
    /\ \E k \in DOMAIN supplier_history :
           /\ supplier_history[k].risk_band = "HIGH"
           /\ supplier_history[k].on_time_payment_rate > 9500
           /\ supplier_history[k].dispute_rate < 200
           /\ supplier_history[k].recommendation = "RETENDER"
    /\ \E k \in DOMAIN supplier_history : supplier_history[k].recommendation = "RENEW"

\* The purchase order a goods receipt names.
PoOf(gr) == CHOOSE p \in POs : p.po_id = gr.po_id

\* C12: every goods receipt's gr_date is strictly later than the po_date of the
\* purchase order it references.
C12_GrDateAfterPoDate ==
    \A g \in GRs :
        /\ \E p \in POs : p.po_id = g.po_id
        /\ DateLess(PoOf(g).po_date, g.gr_date)

\* A goods receipt dated in a later month than its purchase order, beside an OPEN
\* purchase order of the same date.
C12_Witness ==
    \E g \in GRs :
        /\ FromDigits(g.gr_date[2]) # FromDigits(PoOf(g).po_date[2])
        /\ \E p \in POs : p.po_id # g.po_id /\ p.po_date = PoOf(g).po_date /\ p.status = "OPEN"

\* C13: a goods receipt's gr_amount never exceeds its purchase order's po_amount;
\* it equals it exactly or lies, at cent precision, in [0.95 * po_amount, po_amount]:
\* round(po_amount * f, 2) is at most half a paisa below 0.95 * po_amount, that is
\* 20 * (po_amount - gr_amount) <= po_amount + 10 in paise.
C13_GrAmountWithinFraction ==
    \A g \in GRs :
        LET po_amount == PoOf(g).po_amount
        IN  /\ g.gr_amount <= po_amount
            /\ \/ g.gr_amount = po_amount
               \/ 20 * (po_amount - g.gr_amount) <= po_amount + 10

\* A goods receipt at the low end of the fraction whose rounding went down, beside
\* one received in full.
C13_Witness ==
    /\ \E g \in GRs :
           /\ g.gr_amount < PoOf(g).po_amount
           /\ 20 * (PoOf(g).po_amount - g.gr_amount) > PoOf(g).po_amount
    /\ \E g \in GRs : g.gr_amount = PoOf(g).po_amount

\* C14: for every MATCHED invoice the emitted base_amount, cgst and sgst add up, at
\* cent precision, to exactly the emitted total_amount, although total_amount is
\* rounded from the unrounded base and base_amount is rounded on its own.
C14_MatchedTaxFieldsAddUp ==
    \A inv \in Invoices :
        inv.status = "MATCHED" =>
            inv.base_amount + inv.cgst + inv.sgst = inv.total_amount

\* A MATCHED invoice of a purchase order whose tax is an exact tie, rounded up, so
\* that the total differs from the invoice amount.
C14_Witness ==
    \E inv \in Invoices :
        /\ inv.status = "MATCHED"
        /\ inv.po_reference # EmptyStr
        /\ inv.total_amount = inv.amount.paise + 1
        /\ 118 * inv.cgst > 9 * inv.amount.paise

\* C15: on every invoice cgst equals sgst, both differ by at most one paisa from
\* round((total_amount / 1.18) * 0.09, 2), and igst is 0.
C15_TaxIdentity ==
    \A inv \in Invoices :
        /\ inv.cgst = inv.sgst
        /\ inv.igst = 0
        /\ \A t \in Roundings(9 * (inv.total_amount \div 118),
                              9 * (inv.total_amount % 118), 118) :
               inv.cgst - t \in {-1, 0, 1}

\* Invoices of three statuses, one of them with a total that is not its amount.
C15_Witness ==
    /\ \E inv \in Invoices : inv.status = "EXCEPTION" /\ inv.cgst > 0
    /\ \E inv \in Invoices : inv.status = "MATCHED" /\ inv.total_amount # inv.amount.paise

\* C16: a DUPLICATE invoice generated after the first 10 has the invoice_number and
\* the vendor_id of a strictly earlier invoice (the one it drew); every other
\* invoice - any other status, and a DUPLICATE among the first 10 - copies nothing
\* and has a fresh number INV-<number of its own vendor_id>-<suffix>.
C16_DuplicatesCopyOthersFresh ==
    \A i \in DOMAIN invoices_data :
        LET inv == invoices_data[i]
        IN  IF inv.status = "DUPLICATE" /\ i > 10
            THEN /\ \E src \in 1..(i - 1) : CopiesFrom(i, src)
                 /\ CopiesFrom(i, DupSource(i))
            ELSE /\ inv.dup_index = -1
                 /\ \E suffix \in SuffixDraws :
                        inv.invoice_number = <<"INV", inv.vendor_id[2], suffix>>

\* A DUPLICATE among the first 10 invoices and a later one that copied.
C16_Witness ==
    /\ \E i \in DOMAIN invoices_data :
           i <= 10 /\ invoices_data[i].status = "DUPLICATE"
    /\ \E i \in DOMAIN invoices_data :
           /\ i > 10
           /\ invoices_data[i].status = "DUPLICATE"
           /\ invoices_data[i].dup_index >= 0

\* C17: only MATCHED invoices carry a PO reference: every PENDING, DUPLICATE or
\* EXCEPTION invoice is emitted with empty po_reference and empty gr_reference.
C17_OnlyMatchedCarryPO ==
    \A inv \in Invoices :
        inv.status \in {"PENDING", "DUPLICATE", "EXCEPTION"} =>
            inv.po_reference = EmptyStr /\ inv.gr_reference = EmptyStr

\* A MATCHED invoice with a PO reference beside an invoice of another status,
\* generated while a CLOSED purchase order was there to take.
C17_Witness ==
    /\ pos_with_gr # <<>>
    /\ \E inv \in Invoices : inv.status = "MATCHED" /\ inv.po_reference # EmptyStr
    /\ \E inv \in Invoices : inv.status \in {"PENDING", "DUPLICATE", "EXCEPTION"}

\* C18: an invoice with a non-empty po_reference has the vendor_id of that purchase
\* order and the gr_id of the goods receipt whose po_id is that purchase order; an
\* invoice with an empty po_reference has an empty gr_reference.
C18_LinkageConsistent ==
    \A inv \in Invoices :
        IF inv.po_reference # EmptyStr
        THEN /\ \E p \in POs : p.po_id = inv.po_reference /\ p.vendor_id = inv.vendor_id
             /\ \E g \in GRs : g.po_id = inv.po_reference /\ g.gr_id = inv.gr_reference
             /\ \A g \in GRs : g.po_id = inv.po_reference => g.gr_id = inv.gr_reference
        ELSE inv.gr_reference = EmptyStr

\* An invoice linked to the second purchase order, whose goods receipt is the first
\* one, beside an invoice without a PO reference.
C18_Witness ==
    /\ \E inv \in Invoices : inv.po_reference = PoId(2) /\ inv.gr_reference = GrId(1)
    /\ \E inv \in Invoices : inv.po_reference = EmptyStr

HistoryRowsOf(vendor_id) ==
    {k \in DOMAIN supplier_history : supplier_history[k].vendor_id = vendor_id}

\* C19: when the supplier history is written it holds exactly one row for each
\* vendor that at least one invoice references and none for a vendor without
\* invoices; every row is a vendor's, and no invoice's vendor is missing.
C19_OneRowPerInvoicedVendor ==
    pc = "events" =>
        /\ \A v \in DOMAIN vendors_df :
               Cardinality(HistoryRowsOf(vendors_df[v].vendor_id)) =
                   IF \E inv \in Invoices : inv.vendor_id = vendors_df[v].vendor_id
                   THEN 1 ELSE 0
        /\ \A k \in DOMAIN supplier_history :
               \E v \in DOMAIN vendors_df :
                   vendors_df[v].vendor_id = supplier_history[k].vendor_id
        /\ \A inv \in Invoices : HistoryRowsOf(inv.vendor_id) # {}
        /\ csv["supplier_history.csv"] = supplier_history

\* The history is written with a row for one approved vendor and none for the
\* other, which no invoice references.
C19_Witness ==
    /\ pc = "events"
    /\ supplier_history # <<>>
    /\ \E v \in DOMAIN vendors_df :
           /\ vendors_df[v].status = "APPROVED"
           /\ HistoryRowsOf(vendors_df[v].vendor_id) = {}

----------------------------------------------------------------------------
(* C20: the counts of the manifest *)

\* The size of each entity set the run produced.
EntitySizes ==
    [vendors          |-> Len(vendors_df),
     purchase_orders  |-> Len(po_data),
     goods_receipts   |-> Len(gr_data),
     invoices         |-> Len(invoices_data),
     supplier_history |-> Len(supplier_history),
     events           |-> Len(events_df)]

\* The manifest key under which an entity set is counted (lines 444-448).
CountKey ==
    [vendors         |-> "total_vendors",
     invoices        |-> "total_invoices",
     purchase_orders |-> "total_purchase_orders",
     goods_receipts  |-> "total_goods_receipts",
     events          |-> "total_events"]

\* C20 as stated: once the manifest is written, every entity set (vendors,
\* purchase orders, goods receipts, invoices, supplier-history rows, events) has a
\* count in it, under a key that counts no other set, equal to the set's size.
C20_ManifestCountsEverySet ==
    pc = "done" =>
        \A e \in DOMAIN EntitySizes :
            \E k \in (DOMAIN manifest \cap ManifestTotals)
                        \ {CountKey[d] : d \in DOMAIN CountKey \ {e}} :
                manifest[k] = EntitySizes[e]

\* C20, amended: once the manifest is written, it counts the vendors, the purchase
\* orders, the goods receipts, the invoices and the events, each count equal to the
\* size of its table; its other keys hold text, and none counts the
\* supplier-history rows.
C20_ManifestCountsFiveSets ==
    pc = "done" =>
        /\ DOMAIN manifest = ManifestTotals \cup ManifestTexts
        /\ {CountKey[e] : e \in DOMAIN CountKey} = ManifestTotals
        /\ \A e \in DOMAIN CountKey : manifest[CountKey[e]] = EntitySizes[e]
        /\ "supplier_history" \notin DOMAIN CountKey
        /\ csv["manifest_summary.csv"] = <<manifest>>

\* The manifest written over tables of five different sizes: three vendors, two
\* purchase orders, one goods receipt, two invoices and two events, with two
\* supplier-history rows that no key counts.
C20_Witness ==
    /\ pc = "done"
    /\ manifest.total_vendors = 3
    /\ manifest.total_purchase_orders = 2
    /\ manifest.total_goods_receipts = 1
    /\ manifest.total_invoices = 2
    /\ manifest.total_events = 2
    /\ Len(supplier_history) = 2

----------------------------------------------------------------------------
(* C21: the exported tables *)

\* C21: once the invoice table is written, every gr_reference of an exported invoice
\* is the gr_id of a row of some exported table: the goods receipts were written out
\* like every other entity.
C21_GrReferenceResolvesInExport ==
    "invoices.csv" \in DOMAIN csv =>
        \A inv \in Range(csv["invoices.csv"]) :
            inv.gr_reference # EmptyStr =>
                \E file \in DOMAIN csv : \E row \in Range(csv[file]) :
                    "gr_id" \in DOMAIN row /\ row.gr_id = inv.gr_reference

----------------------------------------------------------------------------
(* C25: domestic and foreign identifiers *)

DomesticOnly == {"pan", "gst", "ifsc_code", "state"}
ForeignOnly == {"tax_id", "swift_code"}

\* C25: for every vendor generated, and every vendor of the exported table, pan,
\* gst, ifsc_code and state are non-empty exactly when country is India, and tax_id
\* and swift_code are non-empty exactly when country is not India; so each vendor
\* has one kind of identifier, never both and never neither.
C25_IdentifiersFollowCountry ==
    \A v \in Range(vendors_data) \cup Range(vendors_df) :
        /\ \A f \in DomesticOnly : v[f] # EmptyStr <=> v.country = "India"
        /\ \A f \in ForeignOnly : v[f] # EmptyStr <=> v.country # "India"
        /\ (\E f \in DomesticOnly : v[f] # EmptyStr) # (\E f \in ForeignOnly : v[f] # EmptyStr)

\* The vendor table exported with a domestic vendor and a foreign one in it.
C25_Witness ==
    /\ "vendors.csv" \in DOMAIN csv
    /\ \E v \in Range(vendors_df) : v.country = "India" /\ v.pan # EmptyStr
    /\ \E v \in Range(vendors_df) : v.country # "India" /\ v.swift_code # EmptyStr

----------------------------------------------------------------------------
(* C22: the order of the dates *)

\* C22: for every invoice that references a purchase order, the purchase order's
\* po_date is not later than the gr_date of the invoice's goods receipt, which is
\* not later than the invoice's invoice_date.
C22_DatesInSequence ==
    \A inv \in Invoices : \A po \in POs : \A gr \in GRs :
        (inv.po_reference = po.po_id /\ inv.gr_reference = gr.gr_id) =>
            /\ ~DateLess(gr.gr_date, po.po_date)
            /\ ~DateLess(inv.invoice_date, gr.gr_date)

----------------------------------------------------------------------------
(* C23: the order of the event table *)

\* A '%Y-%m-%d %H:%M:%S' timestamp read back as numbers: the day in a calendar of
\* 31-day months, and the second of the day.
TimestampKey(ts) ==
    [day  |-> (372 * FromDigits(ts[1]) + 31 * FromDigits(ts[2])) + FromDigits(ts[3]),
     secs |-> (3600 * FromDigits(ts[4]) + 60 * FromDigits(ts[5])) + FromDigits(ts[6])]

NotLater(a, b) ==
    \/ TimestampKey(a).day < TimestampKey(b).day
    \/ TimestampKey(a).day = TimestampKey(b).day /\ TimestampKey(a).secs <= TimestampKey(b).secs

\* C23: the event table written out holds the generated events, each as often as it
\* was generated, and for every two adjacent rows the earlier row's timestamp is
\* less than or equal to the later row's, whatever order they were generated in.
C23_EventsSortedByTimestamp ==
    "events_sample.csv" \in DOMAIN csv =>
        LET out == csv["events_sample.csv"]
        IN  /\ out = events_df
            /\ Len(out) = Len(events_data)
            /\ \A e \in Range(events_data) :
                   Cardinality({k \in DOMAIN out : out[k] = e}) =
                   Cardinality({k \in DOMAIN events_data : events_data[k] = e})
            /\ \A k \in 1..(Len(out) - 1) : NotLater(out[k].timestamp, out[k + 1].timestamp)

\* An event table written out in another order than the events were generated in:
\* the second event generated is earlier than the first.
C23_Witness ==
    /\ "events_sample.csv" \in DOMAIN csv
    /\ Len(events_data) = 2
    /\ ~NotLater(events_data[1].timestamp, events_data[2].timestamp)
    /\ events_df = <<events_data[2], events_data[1]>>

----------------------------------------------------------------------------
(* C24: the invoice reference of an event *)

\* C24: for every event, generated or written out, invoice_id is non-empty if and
\* only if the event_type holds INVOICE, and a non-empty invoice_id is the id of an
\* invoice of the invoice table.
C24_InvoiceIdIffInvoiceEvent ==
    \A e \in Range(events_data) \cup Range(events_df) :
        /\ e.invoice_id # EmptyStr <=> "INVOICE" \in Range(e.event_type)
        /\ e.invoice_id # EmptyStr => \E inv \in Invoices : inv.invoice_id = e.invoice_id

\* An invoice event written out whose invoice belongs to another vendor than the
\* event's vendor_id, beside an event without an invoice reference.
C24_Witness ==
    /\ "events_sample.csv" \in DOMAIN csv
    /\ \E e \in Range(events_df) : \E inv \in Invoices :
           /\ e.invoice_id = inv.invoice_id
           /\ e.vendor_id # inv.vendor_id
    /\ \E e \in Range(events_df) : e.invoice_id = EmptyStr

----------------------------------------------------------------------------
(* C26: one PDF per invoice *)

\* C26: when the invoice PDF loop is over, exactly one PDF, digital or scanned, was
\* written for every invoice of the invoice table, so the number of PDFs written
\* equals the number of invoice PDFs the run reports.
C26_OnePdfPerInvoice ==
    pc = "kyc_pdfs" =>
        /\ \A inv \in Range(csv["invoices.csv"]) :
               Cardinality({k \in {"digital", "scanned"} :
                               PdfPath(inv.invoice_id, k) \in pdf_files}) = 1
        /\ Cardinality(pdf_files) = ReportedInvoicePdfs(csv["invoices.csv"])

----------------------------------------------------------------------------
(* C27: the vendors of invoices and events *)

\* The rows of the vendor table a vendor_id selects.
VendorRows(vendor_id) == Filter(vendors_df, "vendor_id", vendor_id)

\* C27: every invoice, whatever its status and whether its vendor_id was drawn, taken
\* from its purchase order or copied from an earlier invoice, and every event has a
\* vendor_id that selects exactly one row of the vendor table, whose status is
\* APPROVED; so the vendor lookup of the invoice PDF loop never fails.
C27_InvoiceAndEventVendorsApproved ==
    /\ \A row \in Invoices \cup Range(events_data) \cup Range(events_df) :
           /\ Len(VendorRows(row.vendor_id)) = 1
           /\ VendorRows(row.vendor_id)[1].status = "APPROVED"
    /\ pc \in {"invoice_pdfs", "kyc_pdfs"} =>
           /\ csv["vendors.csv"] = vendors_df
           /\ csv["invoices.csv"] = invoices_data
    /\ error # "IndexError"

\* The invoice PDF loop finished over a table that holds a MATCHED invoice, invoices
\* without a PO reference and a DUPLICATE that copied its vendor_id, after an event
\* was written out, beside vendors that are not approved.
C27_Witness ==
    /\ pc = "kyc_pdfs"
    /\ pdf_idx = Len(invoices_data)
    /\ \E k \in DOMAIN invoices_data : Copied(k) /\ CopiesFrom(k, DupSource(k))
    /\ \E inv \in Invoices : inv.po_reference = EmptyStr
    /\ \E inv \in Invoices : inv.status = "MATCHED" /\ inv.po_reference # EmptyStr
    /\ events_df # <<>>
    /\ \E v \in Range(vendors_df) : v.status # "APPROVED"

----------------------------------------------------------------------------
(* C28: the look-back draw stays in range *)

\* C28: the invoice loop never aborts on its look-back: no ValueError for an empty
\* draw range and no IndexError for a position outside the list; and every
\* DUPLICATE invoice at index i > 10 drew a 0-based position among the i - 1
\* invoices appended before it, never its own.
C28_LookBackInRange ==
    /\ error \notin {"IndexError", "ValueError"}
    /\ \A i \in DOMAIN invoices_data :
           Copied(i) =>
               /\ invoices_data[i].dup_index \in 0..(i - 2)
               /\ DupSource(i) \in 1..(i - 1)
               /\ DupSource(i) # i

\* The first index that copies, DupAfter + 1, drawing the invoice just before it,
\* which is the highest position it can draw; and the run went on to export.
C28_Witness ==
    /\ "invoices.csv" \in DOMAIN csv
    /\ Len(invoices_data) > DupAfter
    /\ Copied(DupAfter + 1)
    /\ invoices_data[DupAfter + 1].dup_index = DupAfter - 1

----------------------------------------------------------------------------
(* C29: the invoice totals of the supplier history *)

\* The sum of total_invoices_processed over a sequence of history rows.
RECURSIVE TotalProcessed(_)
TotalProcessed(rows) ==
    IF rows = <<>> THEN 0
    ELSE Head(rows).total_invoices_processed + TotalProcessed(Tail(rows))

\* C29: when the supplier history is written, each row's total_invoices_processed
\* is the number of invoices whose vendor_id is the row's, and the totals of all
\* rows add up to the number of invoices: no invoice is left out or counted twice.
C29_TotalsCoverEveryInvoice ==
    pc = "events" =>
        /\ \A k \in DOMAIN supplier_history :
               supplier_history[k].total_invoices_processed =
                   Cardinality({i \in DOMAIN invoices_data :
                                   invoices_data[i].vendor_id = supplier_history[k].vendor_id})
        /\ TotalProcessed(supplier_history) = Len(invoices_data)
        /\ Len(invoices_data) = cfg.NUM_INVOICES

\* The history written with a row that counts two invoices of one vendor.
C29_Witness ==
    /\ pc = "events"
    /\ Len(invoices_data) = 2
    /\ \E k \in DOMAIN supplier_history : supplier_history[k].total_invoices_processed = 2

----------------------------------------------------------------------------
(* C30: the vendor number inside the invoice number *)

\* C30: after any number of invoices, every invoice's invoice_number is
\* INV-<number>-<suffix> with <number> the numeric part of the same invoice's
\* vendor_id; a DUPLICATE that copies takes both fields from one earlier invoice.
C30_InvoiceNumberEmbedsVendor ==
    \A i \in DOMAIN invoices_data :
        LET inv == invoices_data[i]
        IN  /\ Len(inv.invoice_number) = 3
            /\ inv.invoice_number[1] = "INV"
            /\ inv.invoice_number[2] = SplitDash1(inv.vendor_id)
            /\ Copied(i) =>
                   /\ inv.invoice_number = invoices_data[DupSource(i)].invoice_number
                   /\ inv.vendor_id = invoices_data[DupSource(i)].vendor_id

\* A DUPLICATE that copied from an invoice of the second approved vendor, in a table
\* that also holds an invoice of the first.
C30_Witness ==
    \E i \in DOMAIN invoices_data :
        /\ Copied(i)
        /\ invoices_data[i].vendor_id = VendorId(2)
        /\ \E j \in DOMAIN invoices_data : invoices_data[j].vendor_id = VendorId(1)
====
